---- MODULE Spec2Model ----
(***************************************************************************)
(* The ADF <-> markdown transcoder of jira-cli (internal/markdown):        *)
(* renderADF turns a tree of ADF nodes into markdown text (pull) and       *)
(* markdownToADF parses markdown text back into a tree (push).  Nodes the  *)
(* renderer cannot express are carried through the text as three-line      *)
(* PRESERVED markers holding base64 of the node's JSON.                    *)
(*                                                                         *)
(* Go strings are TLA+ strings (sequences of characters); a Go byte is the *)
(* ASCII code of the character.  The one non-ASCII character of the        *)
(* source, the dash of the marker's open line (marshal.go:453), is written *)
(* "-" here; the decoder never looks at that part of the line.  A TLA+     *)
(* string cannot hold a backtick, so the backtick is written as the        *)
(* apostrophe (BT), a character the source gives no meaning of its own.    *)
(***************************************************************************)
EXTENDS Integers, Sequences, FiniteSets, TLC

\* the backtick
BT == "'"

\* ------------------------------------------------------------------------
\* strings package
\* ------------------------------------------------------------------------

\* value bound to a name for the expression In
With(value, In(_)) == In(value)

Min(a, b) == IF a < b THEN a ELSE b

Max(a, b) == IF a > b THEN a ELSE b

\* s[i] as a one-character string
At(s, i) == SubSeq(s, i, i)

\* s[from:] with a 1-based first index
From(s, from) == SubSeq(s, from, Len(s))

HasPrefix(s, p) == Len(s) >= Len(p) /\ SubSeq(s, 1, Len(p)) = p

HasSuffix(s, p) == Len(s) >= Len(p) /\ SubSeq(s, Len(s) - Len(p) + 1, Len(s)) = p

TrimPrefix(s, p) == IF HasPrefix(s, p) THEN From(s, Len(p) + 1) ELSE s

TrimSuffix(s, p) == IF HasSuffix(s, p) THEN SubSeq(s, 1, Len(s) - Len(p)) ELSE s

\* characters unicode.IsSpace accepts, of those a TLA+ string can hold
IsSpace(c) == c \in {" ", "\t", "\n", "\r", "\f"}

\* the greatest element of a non-empty set of integers
MaxOf(S) == CHOOSE p \in S : \A q \in S : p >= q

\* the first index in lo..hi that satisfies P, hi + 1 when none does
FirstIdx(lo, hi, P(_)) ==
    CHOOSE p \in lo..(hi + 1) : (p = hi + 1 \/ P(p)) /\ \A q \in lo..(p - 1) : ~P(q)

\* the last index in lo..hi that satisfies P, lo - 1 when none does
LastIdx(lo, hi, P(_)) ==
    CHOOSE p \in (lo - 1)..hi : (p = lo - 1 \/ P(p)) /\ \A q \in (p + 1)..hi : ~P(q)

\* strings.TrimLeft(s, cutset): s from its first character outside cutset
TrimLeftIn(s, cutset) == From(s, FirstIdx(1, Len(s), LAMBDA p : At(s, p) \notin cutset))

\* strings.TrimRight(s, cutset): s up to its last character outside cutset
TrimRightIn(s, cutset) == SubSeq(s, 1, LastIdx(1, Len(s), LAMBDA p : At(s, p) \notin cutset))

SpaceChars == {" ", "\t", "\n", "\r", "\f"}

TrimSpace(s) == TrimRightIn(TrimLeftIn(s, SpaceChars), SpaceChars)

\* strings.Trim(s, cutset)
TrimIn(s, cutset) == TrimRightIn(TrimLeftIn(s, cutset), cutset)

\* strings.Index: 1-based position of the first occurrence of sub, 0 if none
\* (the remainder turns the index past the last candidate into 0)
Index(s, sub) ==
    IF Len(s) < Len(sub) THEN 0
    ELSE FirstIdx(1, Len(s) - Len(sub) + 1, LAMBDA q : SubSeq(s, q, q + Len(sub) - 1) = sub)
            % (Len(s) - Len(sub) + 2)

\* the k-th smallest element of breaks; 0 for k = 0, past when there are fewer
NthBreak(breaks, k, past) ==
    IF k = 0 THEN 0
    ELSE IF k > Cardinality(breaks) THEN past
    ELSE CHOOSE p \in breaks : Cardinality({q \in breaks : q < p}) = k - 1

\* strings.Split(s, sep) for a separator of one character: the parts between
\* the separators, at least one
SplitOn(s, sep) ==
    With({p \in 1..Len(s) : At(s, p) = sep},
         LAMBDA breaks :
            [k \in 1..(Cardinality(breaks) + 1) |->
                SubSeq(s, NthBreak(breaks, k - 1, 0) + 1,
                       NthBreak(breaks, k, Len(s) + 1) - 1)])

Split(s) == SplitOn(s, "\n")

\* parts[lo] \o ... \o parts[hi], by halves
RECURSIVE ConcatRange(_, _, _)
ConcatRange(parts, lo, hi) ==
    IF lo > hi THEN ""
    ELSE IF lo = hi THEN parts[lo]
    ELSE ConcatRange(parts, lo, (lo + hi) \div 2)
            \o ConcatRange(parts, (lo + hi) \div 2 + 1, hi)

Concat(parts) == ConcatRange(parts, 1, Len(parts))

\* strings.Join
Join(parts, sep) ==
    Concat([k \in 1..Len(parts) |-> IF k = 1 THEN parts[k] ELSE sep \o parts[k]])

\* strings.Repeat; a negative count panics in Go and is never passed here
Repeat(s, n) == Concat([k \in 1..n |-> s])

\* s without the characters of cutset
RemoveAll(s, cutset) ==
    Concat([k \in 1..Len(s) |-> IF At(s, k) \in cutset THEN "" ELSE At(s, k)])

Digits == "0123456789"

IsDigit(c) == c \in {"0", "1", "2", "3", "4", "5", "6", "7", "8", "9"}

\* fmt.Sprintf("%d", n)
RECURSIVE Itoa(_)
Itoa(n) ==
    IF n < 0 THEN "-" \o Itoa(0 - n)
    ELSE IF n < 10 THEN At(Digits, n + 1)
    ELSE Itoa(n \div 10) \o At(Digits, (n % 10) + 1)

\* ------------------------------------------------------------------------
\* bytes: the ASCII code of a character and back
\* ------------------------------------------------------------------------

\* codes 32..95
AsciiLow == " !\"#$%&'()*+,-./0123456789:;<=>?@ABCDEFGHIJKLMNOPQRSTUVWXYZ[\\]^_"

\* codes 97..126
AsciiHigh == "abcdefghijklmnopqrstuvwxyz{|}~"

OrdTable ==
    [c \in {At(AsciiLow, k) : k \in 1..Len(AsciiLow)} |->
        31 + (CHOOSE k \in 1..Len(AsciiLow) : At(AsciiLow, k) = c)]
    @@ [c \in {At(AsciiHigh, k) : k \in 1..Len(AsciiHigh)} |->
        96 + (CHOOSE k \in 1..Len(AsciiHigh) : At(AsciiHigh, k) = c)]
    @@ [c \in {"\t", "\n", "\f", "\r"} |->
        CASE c = "\t" -> 9 [] c = "\n" -> 10 [] c = "\f" -> 12 [] c = "\r" -> 13]

Ord(c) == OrdTable[c]

\* a byte no TLA+ string can hold is shown as the form feed
Chr(b) ==
    IF b >= 32 /\ b <= 95 THEN At(AsciiLow, b - 31)
    ELSE IF b >= 97 /\ b <= 126 THEN At(AsciiHigh, b - 96)
    ELSE CASE b = 9 -> "\t" [] b = 10 -> "\n" [] b = 13 -> "\r" [] OTHER -> "\f"

\* byte-wise s < t, the order sort.Strings gives the keys of a map
StrLess(s, t) ==
    With(FirstIdx(1, Min(Len(s), Len(t)), LAMBDA p : At(s, p) # At(t, p)),
         LAMBDA d : IF d > Len(s) \/ d > Len(t) THEN Len(s) < Len(t)
                    ELSE Ord(At(s, d)) < Ord(At(t, d)))
\* ------------------------------------------------------------------------
\* jira.ADFNode, jira.ADFMark and the values of an attrs map
\* ------------------------------------------------------------------------

\* A value of type any: t is the Go type ("string", "float64", "int", "bool",
\* "nil", "map", "slice", and "NaN" for a float64 json.Marshal rejects).
Value(t, str, n, b, m, a) == [t |-> t, s |-> str, n |-> n, b |-> b, m |-> m, a |-> a]

VString(str) == Value("string", str, 0, FALSE, <<>>, <<>>)

VFloat(n) == Value("float64", "", n, FALSE, <<>>, <<>>)

VInt(n) == Value("int", "", n, FALSE, <<>>, <<>>)

VBool(b) == Value("bool", "", 0, b, <<>>, <<>>)

VNil == Value("nil", "", 0, FALSE, <<>>, <<>>)

VNaN == Value("NaN", "", 0, FALSE, <<>>, <<>>)

VMap(m) == Value("map", "", 0, FALSE, m, <<>>)

VSlice(a) == Value("slice", "", 0, FALSE, <<>>, a)

\* A map[string]any is the sequence of its entries in key order; the nil map
\* and the empty map are both <<>>.
MapHas(m, key) == \E k \in 1..Len(m) : m[k].k = key

MapGet(m, key) == m[CHOOSE k \in 1..Len(m) : m[k].k = key].v

\* m[key] = v
MapSet(m, key, v) ==
    SelectSeq(m, LAMBDA e : StrLess(e.k, key))
        \o <<[k |-> key, v |-> v]>>
        \o SelectSeq(m, LAMBDA e : StrLess(key, e.k))

Attr1(key, v) == <<[k |-> key, v |-> v]>>

ADFMark(type, attrs) == [Type |-> type, Attrs |-> attrs]

ADFNode(type, content, text, attrs, marks) ==
    [Type |-> type, Content |-> content, Text |-> text, Attrs |-> attrs, Marks |-> marks]

\* jira.ADFNode{Type: type, Content: content}
Block(type, content) == ADFNode(type, content, "", <<>>, <<>>)

\* jira.ADFNode{Type: "text", Text: text, Marks: marks}
TextNode(text, marks) == ADFNode("text", <<>>, text, <<>>, marks)

\* ------------------------------------------------------------------------
\* encoding/json: Marshal
\* ------------------------------------------------------------------------

HexDigits == "0123456789abcdef"

\* the \u00XX escape of a byte
EscapeU(b) == "\\u00" \o At(HexDigits, (b \div 16) + 1) \o At(HexDigits, (b % 16) + 1)

EscapeChar(c) ==
    CASE c = "\"" -> "\\\""
      [] c = "\\" -> "\\\\"
      [] c = "\n" -> "\\n"
      [] c = "\r" -> "\\r"
      [] c = "\t" -> "\\t"
      [] c \in {"<", ">", "&", "\f"} -> EscapeU(Ord(c))
      [] OTHER -> c

EscapeString(s) == Concat([k \in 1..Len(s) |-> EscapeChar(At(s, k))])

marshalString(s) == "\"" \o EscapeString(s) \o "\""

RECURSIVE marshalValue(_)
RECURSIVE marshalMap(_)
marshalValue(v) ==
    CASE v.t = "string" -> marshalString(v.s)
      [] v.t \in {"float64", "int"} -> Itoa(v.n)
      [] v.t = "bool" -> IF v.b THEN "true" ELSE "false"
      [] v.t = "map" -> marshalMap(v.m)
      [] v.t = "slice" ->
            "[" \o Join([k \in 1..Len(v.a) |-> marshalValue(v.a[k])], ",") \o "]"
      [] OTHER -> "null"

marshalMap(m) ==
    "{" \o Join([k \in 1..Len(m) |-> marshalString(m[k].k) \o ":" \o marshalValue(m[k].v)], ",")
        \o "}"

\* json.Marshal returns an UnsupportedValueError for a NaN
RECURSIVE ValueMarshals(_)
ValueMarshals(v) ==
    /\ v.t # "NaN"
    /\ \A k \in 1..Len(v.m) : ValueMarshals(v.m[k].v)
    /\ \A k \in 1..Len(v.a) : ValueMarshals(v.a[k])

MapMarshals(m) == \A k \in 1..Len(m) : ValueMarshals(m[k].v)

marshalMark(mark) ==
    "{\"type\":" \o marshalString(mark.Type)
        \o (IF Len(mark.Attrs) > 0 THEN ",\"attrs\":" \o marshalMap(mark.Attrs) ELSE "")
        \o "}"

\* the encoding of an ADFNode: fields in struct order, omitempty on all but type
RECURSIVE marshalNode(_)
marshalNode(node) ==
    "{\"type\":" \o marshalString(node.Type)
        \o (IF Len(node.Content) > 0
            THEN ",\"content\":["
                    \o Join([k \in 1..Len(node.Content) |-> marshalNode(node.Content[k])], ",")
                    \o "]"
            ELSE "")
        \o (IF node.Text # "" THEN ",\"text\":" \o marshalString(node.Text) ELSE "")
        \o (IF Len(node.Attrs) > 0 THEN ",\"attrs\":" \o marshalMap(node.Attrs) ELSE "")
        \o (IF Len(node.Marks) > 0
            THEN ",\"marks\":["
                    \o Join([k \in 1..Len(node.Marks) |-> marshalMark(node.Marks[k])], ",")
                    \o "]"
            ELSE "")
        \o "}"

RECURSIVE NodeMarshals(_)
NodeMarshals(node) ==
    /\ MapMarshals(node.Attrs)
    /\ \A k \in 1..Len(node.Marks) : MapMarshals(node.Marks[k].Attrs)
    /\ \A k \in 1..Len(node.Content) : NodeMarshals(node.Content[k])

\* json.Marshal(node): err is TRUE exactly when a value cannot be encoded
jsonMarshal(node) ==
    IF NodeMarshals(node) THEN [err |-> FALSE, bytes |-> marshalNode(node)]
    ELSE [err |-> TRUE, bytes |-> ""]

\* ------------------------------------------------------------------------
\* ------------------------------------------------------------------------
\* encoding/base64: StdEncoding
\* ------------------------------------------------------------------------

encodeStd == "ABCDEFGHIJKLMNOPQRSTUVWXYZabcdefghijklmnopqrstuvwxyz0123456789+/"

Sextet(n) == At(encodeStd, n + 1)

\* the 24 bits of up to three bytes, the missing ones zero
QuantumBits(src) ==
    Ord(At(src, 1)) * 65536
        + (IF Len(src) >= 2 THEN Ord(At(src, 2)) * 256 ELSE 0)
        + (IF Len(src) >= 3 THEN Ord(At(src, 3)) ELSE 0)

\* up to three bytes as four characters, padded with "="
EncodeQuantum(src) ==
    With(QuantumBits(src),
         LAMBDA v :
            Sextet(v \div 262144) \o Sextet((v \div 4096) % 64)
                \o (IF Len(src) >= 2 THEN Sextet((v \div 64) % 64) ELSE "=")
                \o (IF Len(src) >= 3 THEN Sextet(v % 64) ELSE "="))

\* base64.StdEncoding.EncodeToString
EncodeToString(src) ==
    Concat([g \in 1..((Len(src) + 2) \div 3) |->
                EncodeQuantum(SubSeq(src, 3 * g - 2, Min(3 * g, Len(src))))])

IsStdChar(c) == \E k \in 1..64 : At(encodeStd, k) = c

\* the sextet of a character, 0 for the padding
decodeMap(c) == IF c = "=" THEN 0 ELSE (CHOOSE k \in 1..64 : At(encodeStd, k) = c) - 1

\* how many of the four characters of a quantum carry data: 4, or in the last
\* quantum 3 before "=" and 2 before "=="; 0 for a quantum that is corrupt
QuantumChars(q, last) ==
    IF ~(IsStdChar(At(q, 1)) /\ IsStdChar(At(q, 2))) THEN 0
    ELSE IF last /\ At(q, 3) = "=" /\ At(q, 4) = "=" THEN 2
    ELSE IF ~IsStdChar(At(q, 3)) THEN 0
    ELSE IF last /\ At(q, 4) = "=" THEN 3
    ELSE IF ~IsStdChar(At(q, 4)) THEN 0
    ELSE 4

\* the bytes of one quantum of four characters
DecodeQuantum(q, last) ==
    With(decodeMap(At(q, 1)) * 262144 + decodeMap(At(q, 2)) * 4096
            + decodeMap(At(q, 3)) * 64 + decodeMap(At(q, 4)),
         LAMBDA v :
            Chr(v \div 65536)
                \o (IF QuantumChars(q, last) >= 3 THEN Chr((v \div 256) % 256) ELSE "")
                \o (IF QuantumChars(q, last) >= 4 THEN Chr(v % 256) ELSE ""))

DecodeQuanta(s) ==
    IF Len(s) % 4 # 0
       \/ \E g \in 1..(Len(s) \div 4) :
            QuantumChars(SubSeq(s, 4 * g - 3, 4 * g), 4 * g = Len(s)) = 0
    THEN [err |-> TRUE, bytes |-> ""]
    ELSE [err |-> FALSE,
          bytes |-> Concat([g \in 1..(Len(s) \div 4) |->
                                DecodeQuantum(SubSeq(s, 4 * g - 3, 4 * g), 4 * g = Len(s))])]

\* base64.StdEncoding.DecodeString: padded, line breaks in the input skipped
DecodeString(s) == DecodeQuanta(RemoveAll(s, {"\n", "\r"}))

\* ------------------------------------------------------------------------
\* encoding/json: Unmarshal.  A document is first read as a value of type any
\* (numbers become float64), then stored into the ADFNode struct.  Numbers
\* are integers here; a duplicate key keeps its last value.
\* ------------------------------------------------------------------------

Fail(p) == [err |-> TRUE, v |-> VNil, p |-> p]

Ok(v, p) == [err |-> FALSE, v |-> v, p |-> p]

JsonSpace == {" ", "\t", "\n", "\r"}

\* the first position from p on that holds no white space
skipWS(s, p) == FirstIdx(p, Len(s), LAMBDA q : At(s, q) \notin JsonSpace)

\* the character at position p, "" past the end
Peek(s, p) == IF p >= 1 /\ p <= Len(s) THEN At(s, p) ELSE ""

\* the number of backslashes that end right before position q, none before lo
BackslashesBefore(s, lo, q) == q - 1 - LastIdx(lo, q - 1, LAMBDA r : At(s, r) # "\\")

HexVal(c) ==
    IF \E k \in 1..16 : At(HexDigits, k) = c
    THEN (CHOOSE k \in 1..16 : At(HexDigits, k) = c) - 1
    ELSE IF \E k \in 11..16 : At("0123456789ABCDEF", k) = c
    THEN (CHOOSE k \in 11..16 : At("0123456789ABCDEF", k) = c) - 1
    ELSE -1

\* The role of position k in the body of a string literal: "start" for the
\* backslash that opens an escape, "u" and "escaped" for the character after
\* it, "hex" for the four digits after \u, "plain" for the rest.
EscapeStart(body, k) ==
    k >= 1 /\ At(body, k) = "\\" /\ BackslashesBefore(body, 1, k) % 2 = 0

EscapeRole(body, k) ==
    IF EscapeStart(body, k) THEN "start"
    ELSE IF k > 1 /\ EscapeStart(body, k - 1)
    THEN (IF At(body, k) = "u" THEN "u" ELSE "escaped")
    ELSE IF \E j \in 2..5 : k - j >= 1 /\ EscapeStart(body, k - j) /\ At(body, k - j + 1) = "u"
    THEN "hex"
    ELSE "plain"

\* the four hex digits after the u at position k
HexOk(body, k) == k + 4 <= Len(body) /\ \A j \in 1..4 : HexVal(At(body, k + j)) >= 0

HexCode(body, k) ==
    HexVal(At(body, k + 1)) * 4096 + HexVal(At(body, k + 2)) * 256
        + HexVal(At(body, k + 3)) * 16 + HexVal(At(body, k + 4))

\* position k makes the literal invalid
BadAt(body, k, role) ==
    CASE role = "start" -> k = Len(body)
      [] role = "u" -> ~HexOk(body, k)
      [] role = "escaped" -> At(body, k) \notin {"\"", "\\", "/", "b", "f", "n", "r", "t"}
      [] role = "hex" -> FALSE
      [] OTHER -> At(body, k) \in {"\t", "\n", "\r", "\f"}

\* what position k adds to the text
OutAt(body, k, role) ==
    CASE role = "start" -> ""
      [] role = "u" -> Chr(HexCode(body, k))
      [] role = "escaped" ->
            (CASE At(body, k) = "n" -> "\n"
               [] At(body, k) = "r" -> "\r"
               [] At(body, k) = "t" -> "\t"
               [] At(body, k) \in {"b", "f"} -> "\f"
               [] OTHER -> At(body, k))
      [] role = "hex" -> ""
      [] OTHER -> At(body, k)

\* the text of a string literal whose characters are body (quotes removed)
unquote(body) ==
    With([k \in 1..Len(body) |-> EscapeRole(body, k)],
         LAMBDA role :
            IF \E k \in 1..Len(body) : BadAt(body, k, role[k]) THEN [err |-> TRUE, s |-> ""]
            ELSE [err |-> FALSE, s |-> Concat([k \in 1..Len(body) |-> OutAt(body, k, role[k])])])

\* the string literal that opens at position p and closes at position q
stringUpTo(s, p, q) ==
    IF q > Len(s) THEN Fail(p)
    ELSE With(unquote(SubSeq(s, p + 1, q - 1)),
              LAMBDA u : IF u.err THEN Fail(p) ELSE Ok(VString(u.s), q + 1))

\* a string literal that opens at position p
parseString(s, p) ==
    stringUpTo(s, p,
               FirstIdx(p + 1, Len(s),
                        LAMBDA r : At(s, r) = "\"" /\ BackslashesBefore(s, p + 1, r) % 2 = 0))

RECURSIVE Atoi(_)
Atoi(ds) ==
    IF Len(ds) = 0 THEN 0
    ELSE Atoi(SubSeq(ds, 1, Len(ds) - 1)) * 10 + HexVal(At(ds, Len(ds)))

\* the integer literal whose digits are at d0..(d1 - 1), after the sign if neg
numberUpTo(s, p, neg, d0, d1) ==
    IF d1 = d0 \/ (d1 - d0 > 1 /\ At(s, d0) = "0") THEN Fail(p)
    ELSE IF Peek(s, d1) \in {".", "e", "E"} THEN Fail(p)
    ELSE Ok(VFloat(IF neg THEN 0 - Atoi(SubSeq(s, d0, d1 - 1)) ELSE Atoi(SubSeq(s, d0, d1 - 1))),
            d1)

\* the run of digits from d0 on
digitsFrom(s, p, neg, d0) ==
    numberUpTo(s, p, neg, d0, FirstIdx(d0, Len(s), LAMBDA q : ~IsDigit(At(s, q))))

\* an integer literal that starts at position p
parseNumber(s, p) ==
    IF At(s, p) = "-" THEN digitsFrom(s, p, TRUE, p + 1) ELSE digitsFrom(s, p, FALSE, p)

RECURSIVE parseValue(_, _)
RECURSIVE parseMembers(_, _, _)
RECURSIVE parseElements(_, _, _)

\* the value that starts at position q, which holds no white space
valueAt(s, q) ==
    CASE Peek(s, q) = "\"" -> parseString(s, q)
      [] Peek(s, q) = "{" ->
            With(skipWS(s, q + 1),
                 LAMBDA r : IF Peek(s, r) = "}" THEN Ok(VMap(<<>>), r + 1)
                            ELSE parseMembers(s, r, <<>>))
      [] Peek(s, q) = "[" ->
            With(skipWS(s, q + 1),
                 LAMBDA r : IF Peek(s, r) = "]" THEN Ok(VSlice(<<>>), r + 1)
                            ELSE parseElements(s, r, <<>>))
      [] Peek(s, q) = "t" ->
            IF HasPrefix(From(s, q), "true") THEN Ok(VBool(TRUE), q + 4) ELSE Fail(q)
      [] Peek(s, q) = "f" ->
            IF HasPrefix(From(s, q), "false") THEN Ok(VBool(FALSE), q + 5) ELSE Fail(q)
      [] Peek(s, q) = "n" ->
            IF HasPrefix(From(s, q), "null") THEN Ok(VNil, q + 4) ELSE Fail(q)
      [] Peek(s, q) = "-" \/ IsDigit(Peek(s, q)) -> parseNumber(s, q)
      [] OTHER -> Fail(q)

\* the value that starts at or after position p
parseValue(s, p) == valueAt(s, skipWS(s, p))

\* what follows a member or an element whose value is val: the closing
\* character ends the collection, a comma continues it with More
afterValue(s, val, nxt, close, Done, More(_)) ==
    IF val.err \/ nxt > Len(s) THEN Fail(nxt)
    ELSE IF At(s, nxt) = close THEN Ok(Done, nxt + 1)
    ELSE IF At(s, nxt) = "," THEN More(nxt + 1)
    ELSE Fail(nxt)

\* the member whose key is the literal key, read at position q
memberOf(s, q, acc, key) ==
    IF key.err \/ Peek(s, skipWS(s, key.p)) # ":" THEN Fail(q)
    ELSE With(parseValue(s, skipWS(s, key.p) + 1),
              LAMBDA val :
                afterValue(s, val, skipWS(s, val.p), "}",
                           VMap(MapSet(acc, key.v.s, val.v)),
                           LAMBDA p : parseMembers(s, p, MapSet(acc, key.v.s, val.v))))

\* the members of an object from position p on, up to and including its "}"
parseMembers(s, p, acc) ==
    IF Peek(s, skipWS(s, p)) # "\"" THEN Fail(p)
    ELSE memberOf(s, skipWS(s, p), acc, parseString(s, skipWS(s, p)))

\* the elements of an array from position p on, up to and including its "]"
parseElements(s, p, acc) ==
    With(parseValue(s, p),
         LAMBDA val :
            afterValue(s, val, skipWS(s, val.p), "]",
                       VSlice(Append(acc, val.v)),
                       LAMBDA q : parseElements(s, q, Append(acc, val.v))))

\* the whole of data as one value; anything but white space after it is an error
parseJSON(data) ==
    With(parseValue(data, 1),
         LAMBDA r : IF r.err \/ skipWS(data, r.p) <= Len(data) THEN [err |-> TRUE, v |-> VNil]
                    ELSE [err |-> FALSE, v |-> r.v])

\* A field of the struct takes a value of its own type or null (which leaves
\* it unset); any other value is an UnmarshalTypeError.
FieldOk(m, key, t) == ~MapHas(m, key) \/ MapGet(m, key).t \in {t, "nil"}

FieldSet(m, key) == MapHas(m, key) /\ MapGet(m, key).t # "nil"

\* the string, the map and the elements of a field, zero when it is not set
FieldString(m, key) == IF FieldSet(m, key) THEN MapGet(m, key).s ELSE ""

FieldMap(m, key) == IF FieldSet(m, key) THEN MapGet(m, key).m ELSE <<>>

FieldSlice(m, key) == IF FieldSet(m, key) THEN MapGet(m, key).a ELSE <<>>

markOk(v) ==
    v.t = "nil" \/ (v.t = "map" /\ FieldOk(v.m, "type", "string") /\ FieldOk(v.m, "attrs", "map"))

markOf(v) == ADFMark(FieldString(v.m, "type"), FieldMap(v.m, "attrs"))

RECURSIVE nodeOk(_)
nodeOk(v) ==
    \/ v.t = "nil"
    \/ /\ v.t = "map"
       /\ FieldOk(v.m, "type", "string")
       /\ FieldOk(v.m, "text", "string")
       /\ FieldOk(v.m, "attrs", "map")
       /\ FieldOk(v.m, "content", "slice")
       /\ FieldOk(v.m, "marks", "slice")
       /\ \A k \in 1..Len(FieldSlice(v.m, "content")) : nodeOk(FieldSlice(v.m, "content")[k])
       /\ \A k \in 1..Len(FieldSlice(v.m, "marks")) : markOk(FieldSlice(v.m, "marks")[k])

RECURSIVE nodeOf(_)
nodeOf(v) ==
    ADFNode(FieldString(v.m, "type"),
            [k \in 1..Len(FieldSlice(v.m, "content")) |-> nodeOf(FieldSlice(v.m, "content")[k])],
            FieldString(v.m, "text"),
            FieldMap(v.m, "attrs"),
            [k \in 1..Len(FieldSlice(v.m, "marks")) |-> markOf(FieldSlice(v.m, "marks")[k])])

\* json.Unmarshal(data, &node) into a zero ADFNode
jsonUnmarshal(data) ==
    With(parseJSON(data),
         LAMBDA r : IF r.err \/ ~nodeOk(r.v) THEN [err |-> TRUE, node |-> Block("", <<>>)]
                    ELSE [err |-> FALSE, node |-> nodeOf(r.v)])

\* ------------------------------------------------------------------------
\* marshal.go: ADF -> markdown
\* ------------------------------------------------------------------------

preserveStart == "<!-- PRESERVED:"

preserveData == "<!-- data:"

preserveEnd == "<!-- /PRESERVED -->"

Fence == BT \o BT \o BT

preservedDescriptions ==
    [mediaSingle |-> "Inline image", mediaGroup |-> "Image group", media |-> "Attachment",
     panel |-> "Info/warning panel", expand |-> "Expand/collapse section",
     nestedExpand |-> "Nested expand section", extension |-> "JIRA extension",
     bodiedExtension |-> "JIRA macro", inlineExtension |-> "Inline JIRA macro",
     multiBodiedExtension |-> "Multi-body JIRA macro", layoutSection |-> "Layout columns",
     layoutColumn |-> "Layout column", decisionList |-> "Decision list",
     decisionItem |-> "Decision item", taskList |-> "Task checklist",
     taskItem |-> "Task checkbox", status |-> "Status lozenge", date |-> "Date",
     placeholder |-> "Placeholder"]

\* the tags of renderNode's case that calls writePreservedMarker
PreservedTypes ==
    {"mediaGroup", "mediaSingle", "media", "panel", "expand", "nestedExpand", "extension",
     "bodiedExtension", "inlineExtension", "layoutSection", "layoutColumn", "decisionList",
     "decisionItem", "taskList", "taskItem", "status", "date", "placeholder",
     "multiBodiedExtension"}

\* the three marker lines of a node, or the one-line comment when the node
\* cannot be serialized
markerLines(desc, json) ==
    IF json.err
    THEN "<!-- PRESERVED: " \o desc \o " - Could not serialize for round-trip -->\n"
    ELSE preserveStart \o " " \o desc
            \o " - Do not edit this block; it is restored on push to JIRA. -->\n"
            \o preserveData \o EncodeToString(json.bytes) \o " -->\n"
            \o preserveEnd \o "\n"

\* writePreservedMarker with the tag for the description of every node
writePreservedMarkerByTag(node) == markerLines(node.Type, jsonMarshal(node))

writePreservedMarker(node) ==
    markerLines(IF node.Type \in DOMAIN preservedDescriptions
                THEN preservedDescriptions[node.Type]
                ELSE node.Type,
                jsonMarshal(node))

\* node.Attrs[key].(string), "" when absent or of another type
AttrString(attrs, key) ==
    IF MapHas(attrs, key) /\ MapGet(attrs, key).t = "string" THEN MapGet(attrs, key).s ELSE ""

\* the level renderNode gives a heading: the attribute when it is a float64
headingLevel(node) ==
    IF MapHas(node.Attrs, "level") /\ MapGet(node.Attrs, "level").t = "float64"
    THEN MapGet(node.Attrs, "level").n
    ELSE 2

\* one turn of the loop of applyMarks
applyMark(text, m) ==
    CASE m.Type = "strong" -> "**" \o text \o "**"
      [] m.Type = "em" -> "*" \o text \o "*"
      [] m.Type = "code" -> BT \o text \o BT
      [] m.Type = "strike" -> "~~" \o text \o "~~"
      [] m.Type = "link" -> "[" \o text \o "](" \o AttrString(m.Attrs, "href") \o ")"
      [] m.Type = "underline" -> "_" \o text \o "_"
      [] OTHER -> text

RECURSIVE applyMarksFrom(_, _, _)
applyMarksFrom(text, marks, k) ==
    IF k > Len(marks) THEN text ELSE applyMarksFrom(applyMark(text, marks[k]), marks, k + 1)

applyMarks(text, marks) == applyMarksFrom(text, marks, 1)

\* indentPrefix with the width of a bullet marker for every prefix
indentTwoSpaces(prefix) == "  "

indentPrefix(prefix) == Repeat(" ", Len(prefix))

padRow(row, cols) == row \o [k \in 1..(cols - Len(row)) |-> ""]

\* the loop that strips outer bold marks from a header cell
RECURSIVE stripBold(_)
stripBold(text) ==
    IF HasPrefix(text, "**") /\ HasSuffix(text, "**") /\ Len(text) > 4
    THEN stripBold(SubSeq(text, 3, Len(text) - 2))
    ELSE text

RECURSIVE renderNode(_, _)

renderChildren(node, listPrefix) ==
    Concat([k \in 1..Len(node.Content) |-> renderNode(node.Content[k], listPrefix)])

renderInlineChildren(node) ==
    Concat([k \in 1..Len(node.Content) |-> renderNode(node.Content[k], "")])

\* the text renderTable prints for one cell
cellText(cell) ==
    With(TrimSpace(Concat([k \in 1..Len(cell.Content) |->
                                renderInlineChildren(cell.Content[k])])),
         LAMBDA text : IF cell.Type = "tableHeader" THEN stripBold(text) ELSE text)

\* the rows renderTable collects: the cell texts of every tableRow child
tableRows(node) ==
    With(SelectSeq(node.Content, LAMBDA row : row.Type = "tableRow"),
         LAMBDA rowNodes :
            [r \in 1..Len(rowNodes) |->
                [c \in 1..Len(rowNodes[r].Content) |-> cellText(rowNodes[r].Content[c])]])

tableLine(cells) == "| " \o Join(cells, " | ") \o " |\n"

\* tableText with a separator line only below a row of header cells, which
\* rows of cell texts do not tell apart: no separator line
tableTextNoSeparator(rows, maxCols) ==
    Concat([r \in 1..Len(rows) |-> tableLine(padRow(rows[r], maxCols))]) \o "\n"

\* the table whose rows of cell texts are rows, padded to maxCols columns
tableText(rows, maxCols) ==
    tableLine(padRow(rows[1], maxCols))
        \o tableLine([k \in 1..maxCols |-> "---"])
        \o Concat([r \in 1..(Len(rows) - 1) |-> tableLine(padRow(rows[r + 1], maxCols))])
        \o "\n"

renderTable(node) ==
    With(tableRows(node),
         LAMBDA rows :
            IF Len(node.Content) = 0 \/ Len(rows) = 0 THEN ""
            ELSE tableText(rows, MaxOf({Len(rows[r]) : r \in 1..Len(rows)})))

\* renderItemChild with the items of a nested list numbered by the index of
\* the list among the children of its item
renderItemChildByParent(child, k, listPrefix) ==
    IF k = 1 /\ child.Type = "paragraph"
    THEN listPrefix \o renderInlineChildren(child) \o "\n"
    ELSE IF child.Type \in {"bulletList", "orderedList"}
    THEN Concat([j \in 1..Len(child.Content) |->
            renderNode(child.Content[j],
                       indentPrefix(listPrefix)
                            \o (IF child.Type = "orderedList" THEN Itoa(k) \o ". " ELSE "- "))])
    ELSE renderNode(child, listPrefix)

\* one child of a listItem, k counted from 1
renderItemChild(child, k, listPrefix) ==
    IF k = 1 /\ child.Type = "paragraph"
    THEN listPrefix \o renderInlineChildren(child) \o "\n"
    ELSE IF child.Type \in {"bulletList", "orderedList"}
    THEN Concat([j \in 1..Len(child.Content) |->
            renderNode(child.Content[j],
                       indentPrefix(listPrefix)
                            \o (IF child.Type = "orderedList" THEN Itoa(j) \o ". " ELSE "- "))])
    ELSE renderNode(child, listPrefix)

renderBlockquote(node) ==
    With(Split(TrimRightIn(renderChildren(node, ""), {"\n"})),
         LAMBDA quoted : Concat([k \in 1..Len(quoted) |-> "> " \o quoted[k] \o "\n"]) \o "\n")

renderEmoji(node) ==
    IF AttrString(node.Attrs, "text") # "" THEN AttrString(node.Attrs, "text")
    ELSE AttrString(node.Attrs, "shortName")

renderNode(node, listPrefix) ==
    CASE node.Type = "doc" -> renderChildren(node, "")
      [] node.Type = "paragraph" -> renderInlineChildren(node) \o "\n\n"
      [] node.Type = "heading" ->
            Repeat("#", headingLevel(node)) \o " " \o renderInlineChildren(node) \o "\n\n"
      [] node.Type = "bulletList" ->
            Concat([k \in 1..Len(node.Content) |-> renderNode(node.Content[k], "- ")])
      [] node.Type = "orderedList" ->
            Concat([k \in 1..Len(node.Content) |-> renderNode(node.Content[k], Itoa(k) \o ". ")])
      [] node.Type = "listItem" ->
            Concat([k \in 1..Len(node.Content) |->
                        renderItemChild(node.Content[k], k, listPrefix)])
      [] node.Type = "codeBlock" ->
            Fence \o AttrString(node.Attrs, "language") \o "\n"
                \o Concat([k \in 1..Len(node.Content) |-> node.Content[k].Text])
                \o "\n" \o Fence \o "\n\n"
      [] node.Type = "blockquote" -> renderBlockquote(node)
      [] node.Type = "rule" -> "---\n\n"
      [] node.Type = "table" -> renderTable(node)
      [] node.Type = "text" -> applyMarks(node.Text, node.Marks)
      [] node.Type = "hardBreak" -> "\n"
      [] node.Type = "mention" -> "@" \o AttrString(node.Attrs, "text")
      [] node.Type = "inlineCard" -> "[link](" \o AttrString(node.Attrs, "url") \o ")"
      [] node.Type = "emoji" -> renderEmoji(node)
      [] node.Type \in PreservedTypes -> writePreservedMarker(node)
      [] OTHER -> renderChildren(node, "")

\* renderADF of a non-nil node
renderADF(node) == renderNode(node, "")

\* ------------------------------------------------------------------------
\* unmarshal.go: inline markdown -> text nodes
\* ------------------------------------------------------------------------

NoMatch == [ok |-> FALSE, from |-> 0, to |-> 0, m1 |-> "", m2 |-> ""]

\* The end of the run of characters other than stop that starts at position
\* p: the position of the first stop character from p on, or Len(s) + 1.
RunEnd(s, p, stop) == FirstIdx(p, Len(s), LAMBDA q : At(s, q) = stop)

\* open at position p, then the run that ends before position b, then close
delimUpTo(s, p, open, close, b) ==
    IF SubSeq(s, p, Min(Len(s), p + Len(open) - 1)) = open /\ b > p + Len(open)
       /\ SubSeq(s, b, Min(Len(s), b + Len(close) - 1)) = close
    THEN [ok |-> TRUE, from |-> p, to |-> b + Len(close),
          m1 |-> SubSeq(s, p + Len(open), b - 1), m2 |-> ""]
    ELSE NoMatch

\* open ([^stop]+) close matched at position p: the run is greedy and cannot
\* cross a stop character, so it ends at the first one.  from and to are the
\* pair of FindStringSubmatchIndex (1-based, end exclusive), m1 the group.
matchDelim(s, p, open, stop, close) ==
    delimUpTo(s, p, open, close, RunEnd(s, p + Len(open), stop))

\* the link whose text part matched as t
linkAfter(s, t) ==
    IF ~t.ok THEN NoMatch
    ELSE With(matchDelim(s, t.to - 1, "(", ")", ")"),
              LAMBDA u : IF u.ok
                         THEN [ok |-> TRUE, from |-> t.from, to |-> u.to, m1 |-> t.m1, m2 |-> u.m1]
                         ELSE NoMatch)

\* \[([^\]]+)\]\(([^)]+)\) matched at position p
matchLink(s, p) == linkAfter(s, matchDelim(s, p, "[", "]", "]("))

\* the delimiters of the patterns after the link: bold, strike, code, italic
delims == <<"", "**", "~~", BT, "*">>

\* the character their group excludes
stops == <<"", "*", "~", BT, "*">>

\* the patterns of parseInline in their order: link, bold, strike, code, italic
matchPattern(pi, s, p) ==
    IF pi = 1 THEN matchLink(s, p) ELSE matchDelim(s, p, delims[pi], stops[pi], delims[pi])

\* p.re.FindStringSubmatchIndex(remaining): the leftmost match
findPattern(pi, s) ==
    With({p \in 1..Len(s) : matchPattern(pi, s, p).ok},
         LAMBDA starts :
            IF starts = {} THEN NoMatch
            ELSE matchPattern(pi, s, CHOOSE p \in starts : \A q \in starts : p <= q))

\* the node markFn builds from a match
markFn(pi, m) ==
    CASE pi = 1 -> TextNode(m.m1, <<ADFMark("link", Attr1("href", VString(m.m2)))>>)
      [] pi = 2 -> TextNode(m.m1, <<ADFMark("strong", <<>>)>>)
      [] pi = 3 -> TextNode(m.m1, <<ADFMark("strike", <<>>)>>)
      [] pi = 4 -> TextNode(m.m1, <<ADFMark("code", <<>>)>>)
      [] pi = 5 -> TextNode(m.m1, <<ADFMark("em", <<>>)>>)

\* earliestPattern with the order of the patterns put before the position of
\* the match: the first pattern of the order that matches anywhere
priorityPattern(found) ==
    IF \A pi \in 1..5 : ~found[pi].ok THEN 0
    ELSE CHOOSE pi \in 1..5 : found[pi].ok /\ \A pj \in 1..(pi - 1) : ~found[pj].ok

\* The scan over the patterns, found[pi] the match of pattern pi: the earliest
\* start wins, and of two patterns that start together the one tried first
\* (loc[0] < earliestIdx is strict).  0 when no pattern matches.
earliestPattern(found) ==
    IF \A pi \in 1..5 : ~found[pi].ok THEN 0
    ELSE CHOOSE pi \in 1..5 :
            /\ found[pi].ok
            /\ \A pj \in 1..5 :
                    found[pj].ok =>
                        \/ found[pi].from < found[pj].from
                        \/ (found[pi].from = found[pj].from /\ pi <= pj)

RECURSIVE inlineLoop(_)

\* inlineTurn with the text before a match left out
inlineTurnFromMatch(remaining, found, pi) ==
    IF pi = 0 THEN <<TextNode(remaining, <<>>)>>
    ELSE <<markFn(pi, found[pi])>> \o inlineLoop(From(remaining, found[pi].to))

\* one turn of the loop of parseInline, pi the pattern that matched first
inlineTurn(remaining, found, pi) ==
    IF pi = 0 THEN <<TextNode(remaining, <<>>)>>
    ELSE (IF found[pi].from > 1
          THEN <<TextNode(SubSeq(remaining, 1, found[pi].from - 1), <<>>)>>
          ELSE <<>>)
            \o <<markFn(pi, found[pi])>>
            \o inlineLoop(From(remaining, found[pi].to))

inlineLoop(remaining) ==
    IF remaining = "" THEN <<>>
    ELSE With([pi \in 1..5 |-> findPattern(pi, remaining)],
              LAMBDA found : inlineTurn(remaining, found, earliestPattern(found)))

parseInline(text) ==
    IF text = "" THEN <<TextNode("", <<>>)>>
    ELSE With(inlineLoop(text),
              LAMBDA nodes : IF Len(nodes) = 0 THEN <<TextNode(text, <<>>)>> ELSE nodes)

\* ------------------------------------------------------------------------
\* unmarshal.go: markdown -> ADF
\* ------------------------------------------------------------------------

\* the number of leading '#' characters
leadingHashes(line) == FirstIdx(1, Len(line), LAMBDA q : At(line, q) # "#") - 1

\* parseHeading: level 0 when the line is no heading
parseHeading(line) ==
    IF ~HasPrefix(line, "#") THEN [level |-> 0, text |-> ""]
    ELSE With(leadingHashes(line),
              LAMBDA level : IF level > 6 THEN [level |-> 0, text |-> ""]
                             ELSE [level |-> level, text |-> TrimSpace(From(line, level + 1))])

\* ^\d+\.\s : the end of the match (exclusive, 1-based), 0 when there is none
ordRe(line) ==
    With(FirstIdx(1, Len(line), LAMBDA q : ~IsDigit(At(line, q))),
         LAMBDA d : IF d > 1 /\ Peek(line, d) = "." /\ IsSpace(Peek(line, d + 1))
                    THEN d + 2 ELSE 0)

\* ^[-*]\s
listRe(line) == IF Peek(line, 1) \in {"-", "*"} /\ IsSpace(Peek(line, 2)) THEN 3 ELSE 0

\* the length of the run of white space the line starts with
leadingSpace(line) == FirstIdx(1, Len(line), LAMBDA q : ~IsSpace(At(line, q))) - 1

\* the prefix (\s{2,}|\t) can only be the whole run of leading white space
indentedRe(line, n, ordered) ==
    /\ n >= 2 \/ (n = 1 /\ At(line, 1) = "\t")
    /\ (IF ordered THEN ordRe(From(line, n + 1)) ELSE listRe(From(line, n + 1))) > 0

\* ^(\s{2,}|\t)[-*]\s
indentedBulletRe(line) == indentedRe(line, leadingSpace(line), FALSE)

\* ^(\s{2,}|\t)\d+\.\s
indentedOrdRe(line) == indentedRe(line, leadingSpace(line), TRUE)

\* the first index from i on whose line fails test, Len(lines) + 1 if none
RunOfLines(lines, i, test(_)) == FirstIdx(i, Len(lines), LAMBDA j : ~test(lines[j]))

\* the tag of the sub-list that starts at index i, "" when none does
subListAt(lines, i) ==
    IF i > Len(lines) THEN ""
    ELSE IF indentedBulletRe(lines[i]) THEN "bulletList"
    ELSE IF indentedOrdRe(lines[i]) THEN "orderedList"
    ELSE ""

\* the index after the sub-list of tag sub that starts at index i
subListEnd(lines, i, sub) ==
    CASE sub = "bulletList" -> RunOfLines(lines, i, indentedBulletRe)
      [] sub = "orderedList" -> RunOfLines(lines, i, indentedOrdRe)
      [] OTHER -> i

RECURSIVE parseList(_, _, _)

\* the item of text, with its sub-list of tag sub parsed from subLines
listItem(text, sub, subLines) ==
    Block("listItem",
          <<Block("paragraph", parseInline(text))>>
            \o (IF sub = "" THEN <<>>
                ELSE <<Block(sub, parseList(subLines, 1, sub = "orderedList").items)>>))

\* the item at index i whose text starts at position loc and whose sub-list
\* of tag sub ends before index j, and the items after it
itemsFrom(lines, i, ordered, loc, sub, j) ==
    With(parseList(lines, j, ordered),
         LAMBDA rest :
            [items |-> <<listItem(From(lines[i], loc), sub,
                                  [k \in 1..(j - i - 1) |->
                                        TrimLeftIn(lines[i + k], {" ", "\t"})])>>
                        \o rest.items,
             i |-> rest.i])

\* the item at index i whose text starts at position loc
itemAt(lines, i, ordered, loc, sub) ==
    IF loc = 0 THEN [items |-> <<>>, i |-> i]
    ELSE itemsFrom(lines, i, ordered, loc, sub, subListEnd(lines, i + 1, sub))

\* parseList from index i (1-based): the items and the index after the list
parseList(lines, i, ordered) ==
    IF i > Len(lines) THEN [items |-> <<>>, i |-> i]
    ELSE itemAt(lines, i, ordered,
                IF ordered THEN ordRe(lines[i]) ELSE listRe(lines[i]),
                subListAt(lines, i + 1))

splitTableRow(line) ==
    With(SplitOn(TrimSuffix(TrimPrefix(TrimSpace(line), "|"), "|"), "|"),
         LAMBDA parts : [k \in 1..Len(parts) |-> TrimSpace(parts[k])])

buildTableRow(cells, isHeader) ==
    Block("tableRow",
          [k \in 1..Len(cells) |->
              Block(IF isHeader THEN "tableHeader" ELSE "tableCell",
                    <<Block("paragraph", parseInline(cells[k]))>>)])

pipeLine(line) == HasPrefix(TrimSpace(line), "|")

\* no cell of the row holds anything but ':' and '-'
isSeparator(sepCells) ==
    \A k \in 1..Len(sepCells) : TrimIn(TrimSpace(sepCells[k]), {":", "-"}) = ""

\* tableRowsOf with the separator line kept as a row
tableRowsWithSeparator(tableLines, sep) ==
    [k \in 1..Len(tableLines) |->
        buildTableRow(splitTableRow(tableLines[k]), sep /\ k = 1)]

\* the rows of the table: with a separator the first line is the header and
\* the separator gives no row
tableRowsOf(tableLines, sep) ==
    With([k \in 1..Len(tableLines) |->
            buildTableRow(splitTableRow(tableLines[k]), sep /\ k = 1)],
         LAMBDA rows : IF sep THEN <<rows[1]>> \o SubSeq(rows, 3, Len(rows)) ELSE rows)

\* the absent node of a (*jira.ADFNode, int) result, with its index
NilNode(i) == [ok |-> FALSE, node |-> Block("", <<>>), i |-> i]

\* the table of the lines tableLines, which end before index end
tableOf(tableLines, start, end) ==
    IF Len(tableLines) < 2 THEN NilNode(start + 1)
    ELSE [ok |-> TRUE,
          node |-> ADFNode("table",
                           tableRowsOf(tableLines, isSeparator(splitTableRow(tableLines[2]))),
                           "",
                           MapSet(Attr1("isNumberColumnEnabled", VBool(FALSE)),
                                  "layout", VString("default")),
                           <<>>),
          i |-> end]

\* the lines of the table that starts at index i and ends before index end
tableUpTo(lines, i, end) ==
    tableOf([k \in 1..(end - i) |-> TrimSpace(lines[i + k - 1])], i, end)

\* parseMarkdownTable from index i: ok is FALSE for the nil node
parseMarkdownTable(lines, i) == tableUpTo(lines, i, RunOfLines(lines, i, pipeLine))

\* the node of the decoded payload
markerNode(startIdx, decoded) ==
    IF decoded.err THEN NilNode(startIdx + 1)
    ELSE With(jsonUnmarshal(decoded.bytes),
              LAMBDA node : IF node.err THEN NilNode(startIdx + 1)
                            ELSE [ok |-> TRUE, node |-> node.node, i |-> startIdx + 3])

\* markerOf without the removal of the comment's closing " -->" from the data line
markerOfUntrimmed(startIdx, dataLine, closeLine) ==
    IF ~HasPrefix(dataLine, preserveData) \/ closeLine # preserveEnd
    THEN NilNode(startIdx + 1)
    ELSE markerNode(startIdx, DecodeString(TrimSpace(TrimPrefix(dataLine, preserveData))))

\* the node of the marker whose second and third line are these
markerOf(startIdx, dataLine, closeLine) ==
    IF ~HasPrefix(dataLine, preserveData) \/ closeLine # preserveEnd
    THEN NilNode(startIdx + 1)
    ELSE markerNode(startIdx,
                    DecodeString(TrimSpace(TrimSuffix(TrimPrefix(dataLine, preserveData),
                                                      " -->"))))

\* parsePreservedMarker at index startIdx (1-based): ok is FALSE for the nil
\* node, i the index after the block
parsePreservedMarker(lines, startIdx) ==
    IF startIdx + 2 > Len(lines) THEN NilNode(startIdx + 1)
    ELSE markerOf(startIdx, TrimSpace(lines[startIdx + 1]), TrimSpace(lines[startIdx + 2]))

\* ---- the conditions of markdownToADF's dispatch, in the order it tests them

blankLine(line) == TrimSpace(line) = ""

markerOpen(line) == HasPrefix(TrimSpace(line), preserveStart)

ruleLine(line) == TrimSpace(line) \in {"---", "***", "___"}

fenceLine(line) == HasPrefix(TrimSpace(line), Fence)

quoteStart(line) == HasPrefix(line, "> ") \/ line = ">"

quoteLine(line) == HasPrefix(line, "> ") \/ TrimSpace(line) = ">"

bulletStart(line) == HasPrefix(line, "- ") \/ HasPrefix(line, "* ")

\* the test of the paragraph loop that ends the paragraph before line l
paragraphBreak(l) ==
    \/ TrimSpace(l) = ""
    \/ HasPrefix(l, "#") \/ HasPrefix(l, Fence) \/ HasPrefix(l, "> ")
    \/ HasPrefix(l, "- ") \/ HasPrefix(l, "* ")
    \/ TrimSpace(l) = "---" \/ TrimSpace(l) = "***"
    \/ HasPrefix(TrimSpace(l), preserveStart)
    \/ HasPrefix(TrimSpace(l), "|")
    \/ ordRe(l) > 0

paragraphLine(l) == ~paragraphBreak(l)

\* The branch one iteration of the loop takes at index i: the first whose
\* condition holds, where a marker that does not decode and a table that is
\* nil fall through to the tests after them.
kindAt(lines, i) ==
    IF blankLine(lines[i]) THEN "blank"
    ELSE IF markerOpen(lines[i]) /\ parsePreservedMarker(lines, i).ok THEN "marker"
    ELSE IF ruleLine(lines[i]) THEN "rule"
    ELSE IF parseHeading(lines[i]).level > 0 THEN "heading"
    ELSE IF fenceLine(lines[i]) THEN "codeBlock"
    ELSE IF quoteStart(lines[i]) THEN "blockquote"
    ELSE IF bulletStart(lines[i]) THEN "bulletList"
    ELSE IF ordRe(lines[i]) > 0 THEN "orderedList"
    ELSE IF pipeLine(lines[i]) /\ parseMarkdownTable(lines, i).ok THEN "table"
    ELSE "paragraph"

\* ---- the branches: what one iteration appends to doc.Content and the index
\* ---- it leaves; hang is TRUE when the iteration never ends

Step(nodes, next) == [nodes |-> nodes, i |-> next, hang |-> FALSE]

blankAt(lines, i) == Step(<<>>, i + 1)

markerAt(lines, i) ==
    With(parsePreservedMarker(lines, i), LAMBDA r : Step(<<r.node>>, r.i))

ruleAt(lines, i) == Step(<<Block("rule", <<>>)>>, i + 1)

headingAt(lines, i) ==
    With(parseHeading(lines[i]),
         LAMBDA h : Step(<<ADFNode("heading", parseInline(h.text), "",
                                   Attr1("level", VInt(h.level)), <<>>)>>,
                         i + 1))

\* codeBlockUpTo with the code as the text of the codeBlock node itself
codeBlockWithOwnText(lines, i, lang, close) ==
    Step(<<ADFNode("codeBlock",
                   <<>>,
                   Join([k \in 1..(close - i - 1) |-> lines[i + k]], "\n"),
                   IF lang # "" THEN Attr1("language", VString(lang)) ELSE <<>>,
                   <<>>)>>,
         Min(close + 1, Len(lines) + 1))

\* the code block whose text is the lines before index close
codeBlockUpTo(lines, i, lang, close) ==
    Step(<<ADFNode("codeBlock",
                   <<TextNode(Join([k \in 1..(close - i - 1) |-> lines[i + k]], "\n"), <<>>)>>,
                   "",
                   IF lang # "" THEN Attr1("language", VString(lang)) ELSE <<>>,
                   <<>>)>>,
         Min(close + 1, Len(lines) + 1))

\* codeBlockAt with any line that starts with the fence as the closing one
codeBlockToAnyFence(lines, i) ==
    codeBlockUpTo(lines, i, TrimSpace(TrimPrefix(TrimSpace(lines[i]), Fence)),
                  FirstIdx(i + 1, Len(lines), LAMBDA j : HasPrefix(TrimSpace(lines[j]), Fence)))

\* the lines up to the closing fence, or all the rest
codeBlockAt(lines, i) ==
    codeBlockUpTo(lines, i, TrimSpace(TrimPrefix(TrimSpace(lines[i]), Fence)),
                  FirstIdx(i + 1, Len(lines), LAMBDA j : TrimSpace(lines[j]) = Fence))

\* the text the blockquote branch hands to the inner markdownToADF
quoteText(lines, i, end) ==
    Join([k \in 1..(end - i) |-> TrimPrefix(TrimPrefix(lines[i + k - 1], "> "), ">")], "\n")

RECURSIVE markdownToADF(_)

\* the blockquote of the lines before index end
blockquoteUpTo(lines, i, end) ==
    With(markdownToADF(quoteText(lines, i, end)),
         LAMBDA innerDoc :
            [nodes |-> <<Block("blockquote", innerDoc.doc.Content)>>,
             i |-> end,
             hang |-> innerDoc.hang])

blockquoteAt(lines, i) == blockquoteUpTo(lines, i, RunOfLines(lines, i, quoteLine))

\* the two list branches
listAt(lines, i, ordered) ==
    With(parseList(lines, i, ordered),
         LAMBDA r : Step(<<Block(IF ordered THEN "orderedList" ELSE "bulletList", r.items)>>,
                         r.i))

tableAt(lines, i) ==
    With(parseMarkdownTable(lines, i), LAMBDA r : Step(<<r.node>>, r.i))

\* the paragraph of the lines before index end
paragraphUpTo(lines, i, end) ==
    Step(IF end > i
         THEN <<Block("paragraph",
                      parseInline(Join([k \in 1..(end - i) |-> lines[i + k - 1]], " ")))>>
         ELSE <<>>,
         end)

\* the paragraph branch: no line collected leaves the index where it was
paragraphAt(lines, i) == paragraphUpTo(lines, i, RunOfLines(lines, i, paragraphLine))

\* the iteration of the loop that takes the branch kind at index i
stepOf(lines, i, kind) ==
    CASE kind = "blank" -> blankAt(lines, i)
      [] kind = "marker" -> markerAt(lines, i)
      [] kind = "rule" -> ruleAt(lines, i)
      [] kind = "heading" -> headingAt(lines, i)
      [] kind = "codeBlock" -> codeBlockAt(lines, i)
      [] kind = "blockquote" -> blockquoteAt(lines, i)
      [] kind = "bulletList" -> listAt(lines, i, FALSE)
      [] kind = "orderedList" -> listAt(lines, i, TRUE)
      [] kind = "table" -> tableAt(lines, i)
      [] OTHER -> paragraphAt(lines, i)

\* one iteration of the loop at index i
stepAt(lines, i) == stepOf(lines, i, kindAt(lines, i))

\* An iteration that leaves the index where it was has appended nothing and
\* meets the same lines at the same index again: the loop never ends.
stuck(step, i) == step.hang \/ step.i = i

spins(lines, i) == stuck(stepAt(lines, i), i)

docNode(content) == ADFNode("doc", content, "", Attr1("version", VInt(1)), <<>>)

RECURSIVE loopFrom(_, _)

\* the loop after the iteration step
loopAfter(lines, step) ==
    With(loopFrom(lines, step.i),
         LAMBDA rest : [hang |-> rest.hang, content |-> step.nodes \o rest.content])

\* the loop of markdownToADF from index i on
loopFrom(lines, i) ==
    IF i > Len(lines) THEN [hang |-> FALSE, content |-> <<>>]
    ELSE With(stepAt(lines, i),
              LAMBDA step : IF stuck(step, i) THEN [hang |-> TRUE, content |-> <<>>]
                            ELSE loopAfter(lines, step))

\* markdownToADF(md): the doc it returns (err is always nil), or hang when
\* the call never returns
markdownToADF(md) ==
    With(loopFrom(Split(md), 1),
         LAMBDA r : [hang |-> r.hang, doc |-> docNode(IF r.hang THEN <<>> ELSE r.content)])

BodyToADF(markdownBody) == markdownToADF(markdownBody)

\* what splitFrontmatter returns: err is "" for the nil error
Front(fm, body, err) == [called |-> TRUE, fm |-> fm, body |-> body, err |-> err]

\* splitFrontmatter from the text after the opening delimiter
frontmatterOf(rest) ==
    With(Index(rest, "\n---"),
         LAMBDA idx :
            IF idx = 0 THEN Front("", "", "no closing --- for frontmatter")
            ELSE Front(SubSeq(rest, 1, idx - 1),
                       TrimLeftIn(From(rest, idx + 4), {"\n", "\r"}),
                       ""))

splitFrontmatter(fileContent) ==
    With(TrimSpace(fileContent),
         LAMBDA trimmed :
            IF ~HasPrefix(trimmed, "---")
            THEN Front("", "", "no YAML frontmatter found (must start with ---)")
            ELSE frontmatterOf(TrimLeftIn(From(trimmed, 4), {"\n", "\r"})))

\* ------------------------------------------------------------------------
\* The documents and files the commands are run on
\* ------------------------------------------------------------------------

\* how many blocks may stand before, and how many after, a block of a
\* document or a piece of a file
MaxSiblings == 1

NoDoc == Block("", <<>>)

Strong == ADFMark("strong", <<>>)

Em == ADFMark("em", <<>>)

Link(href) == ADFMark("link", Attr1("href", VString(href)))

Para(inline) == Block("paragraph", inline)

Plain(text) == Para(<<TextNode(text, <<>>)>>)

\* a heading as the remote service sends it: JSON numbers decode to float64
Heading(level, text) ==
    ADFNode("heading", <<TextNode(text, <<>>)>>, "", Attr1("level", VFloat(level)), <<>>)

Item(text, sub) == Block("listItem", <<Plain(text)>> \o sub)

CodeBlock(lang, text) ==
    ADFNode("codeBlock", <<TextNode(text, <<>>)>>, "",
            IF lang = "" THEN <<>> ELSE Attr1("language", VString(lang)), <<>>)

Cell(type, text) == Block(type, <<Plain(text)>>)

Row(type, texts) == Block("tableRow", [k \in 1..Len(texts) |-> Cell(type, texts[k])])

\* nodes of tags the renderer hands to writePreservedMarker
MediaSingle ==
    ADFNode("mediaSingle",
            <<ADFNode("media", <<>>, "",
                      MapSet(MapSet(Attr1("id", VString("a<b>&\"c\\")), "width", VFloat(120)),
                             "type", VString("file")),
                      <<>>)>>,
            "", Attr1("layout", VString("center")), <<>>)

Status ==
    ADFNode("status", <<>>, "",
            MapSet(Attr1("text", VString("In Progress")), "color", VString("blue")), <<>>)

Panel ==
    ADFNode("panel", <<Para(<<TextNode("note", <<Strong, Link("http://x/?a=1&b=2")>>)>>)>>, "",
            Attr1("panelType", VString("info")), <<>>)

Extension ==
    ADFNode("extension", <<>>, "",
            MapSet(MapSet(MapSet(Attr1("extensionKey", VString("toc")),
                                 "parameters",
                                 VMap(MapSet(Attr1("levels", VSlice(<<VFloat(1), VFloat(-3)>>)),
                                             "macro", VMap(<<>>)))),
                          "local", VBool(TRUE)),
                   "layout", VNil),
            <<>>)

TaskItem ==
    ADFNode("taskItem", <<TextNode("line 1\nline 2\t'x'", <<>>)>>, "",
            MapSet(Attr1("localId", VInt(7)), "state", VString("TODO")), <<>>)

Date == ADFNode("date", <<>>, "", Attr1("timestamp", VString("1700000000000")), <<>>)

Placeholder == ADFNode("placeholder", <<>>, "", <<>>, <<>>)

\* a value json.Marshal rejects; no JSON document decodes to it
Unserializable == ADFNode("expand", <<>>, "", Attr1("ratio", VNaN), <<>>)

Preserved == {MediaSingle, Status, Panel, Extension, TaskItem, Date, Placeholder, Unserializable}

\* a tag renderNode has no case for
BlockCard ==
    ADFNode("blockCard", <<>>, "", Attr1("url", VString("http://x")), <<>>)

Caption == Block("caption", <<TextNode("fig", <<>>)>>)

\* blocks of the tags the renderer has cases of its own for
Supported ==
    {Plain("a"), Plain("Hello world"),
     Para(<<TextNode("Hello ", <<>>), TextNode("world", <<Strong>>)>>),
     Para(<<TextNode("x", <<Em>>), TextNode(" y ", <<>>), TextNode("z", <<ADFMark("code", <<>>)>>)>>),
     Para(<<TextNode("s", <<ADFMark("strike", <<>>)>>), TextNode("t", <<Link("u")>>)>>),
     Para(<<TextNode("both", <<Strong, Em>>)>>),
     Para(<<TextNode("a", <<>>), TextNode("b", <<>>)>>),
     Plain("|x"), Plain("#######"), Plain(Fence), Plain("2 * 3 * 4"),
     Block("rule", <<>>),
     CodeBlock("go", "x = 1\ny"), CodeBlock("", "# not a heading"), CodeBlock("", Fence),
     Block("blockquote", <<Plain("q1"), Plain("q2")>>),
     Block("blockquote", <<Block("bulletList", <<Item("a", <<>>)>>)>>),
     Block("bulletList", <<Item("a", <<>>)>>),
     Block("bulletList", <<Item("a", <<>>), Item("b", <<>>)>>),
     Block("orderedList", <<Item("a", <<>>), Item("b", <<>>)>>),
     Block("bulletList", <<Item("a", <<Block("bulletList", <<Item("b", <<>>)>>)>>), Item("c", <<>>)>>),
     Block("orderedList", <<Item("a", <<Block("orderedList", <<Item("b", <<>>)>>)>>)>>),
     Block("orderedList", <<Item("a", <<Block("bulletList", <<Item("b", <<>>), Item("c", <<>>)>>)>>)>>),
     Block("bulletList", <<Item("a", <<Block("orderedList", <<Item("b", <<>>)>>)>>)>>),
     Block("orderedList",
           [k \in 1..10 |->
                Item("i", IF k = 10 THEN <<Block("orderedList", <<Item("b", <<>>)>>)>> ELSE <<>>)]),
     Block("bulletList",
           <<Item("a", <<Block("bulletList",
                               <<Item("b", <<Block("bulletList", <<Item("c", <<>>)>>)>>)>>)>>)>>),
     Block("table", <<Row("tableHeader", <<"A", "B">>), Row("tableCell", <<"1", "2">>)>>),
     Block("table", <<Row("tableCell", <<"1", "2">>), Row("tableCell", <<"3">>)>>)}
    \cup {Heading(level, "Title") : level \in 1..6}

\* a preserved node inside another block
Nested ==
    {Para(<<TextNode("Hello ", <<>>), Status>>),
     Para(<<Status, TextNode(" done", <<>>)>>),
     ADFNode("heading", <<TextNode("Due ", <<>>), Date>>, "", Attr1("level", VFloat(2)), <<>>),
     Block("bulletList", <<Block("listItem", <<Plain("a"), MediaSingle>>)>>),
     Block("blockquote", <<Plain("q"), Panel>>),
     Block("table", <<Row("tableHeader", <<"A">>),
                      Block("tableRow", <<Block("tableCell", <<Para(<<Status>>)>>)>>)>>),
     Block("table", <<Row("tableHeader", <<"A">>),
                      Block("tableRow", <<Block("tableCell", <<MediaSingle>>)>>)>>)}

\* the blocks that stand around a preserved node
Siblings ==
    {Plain("a"), Block("bulletList", <<Item("a", <<>>)>>), Plain("|x"), CodeBlock("", Fence)}

\* the sequences of at most n elements of S
RECURSIVE SeqsUpTo(_, _)
SeqsUpTo(S, n) ==
    IF n = 0 THEN {<<>>}
    ELSE SeqsUpTo(S, n - 1) \cup {Append(q, e) : q \in SeqsUpTo(S, n - 1), e \in S}

\* the documents the remote service may hold
Docs ==
    {Block("doc", <<b>>) : b \in Supported \cup Nested \cup Preserved \cup {BlockCard, Caption}}
    \cup {Block("doc", pre \o <<m>> \o post) :
            pre \in SeqsUpTo(Siblings, MaxSiblings),
            post \in SeqsUpTo(Siblings, MaxSiblings),
            m \in {MediaSingle, Placeholder}}

\* the lines of a node's marker
MarkerLines(node) == Split(TrimSuffix(writePreservedMarker(node), "\n"))

\* marker blocks that do not decode: no data prefix, a wrong close line, a
\* payload that is not base64, a payload that is not JSON, too few lines
BadMarkers ==
    {MarkerLines(Status)[1] \o "\nnot the data line\n" \o preserveEnd,
     MarkerLines(Status)[1] \o "\n" \o MarkerLines(Status)[2] \o "\n<!-- PRESERVED -->",
     MarkerLines(Status)[1] \o "\n" \o preserveData \o "e30*= -->\n" \o preserveEnd,
     MarkerLines(Status)[1] \o "\n" \o preserveData \o EncodeToString("{\"type\":1}")
        \o " -->\n" \o preserveEnd,
     MarkerLines(Status)[1] \o "\n" \o preserveData \o EncodeToString("{\"type\" \"x\"}")
        \o " -->\n" \o preserveEnd,
     MarkerLines(Status)[1]}

\* pieces of markdown, one for every construct the parser knows and for the
\* lines that only look like one
Snippets ==
    {"", "text", "two\nlines", "---", "***", "___", "# Title", "###### h6", "#######",
     Fence \o "go\nx\n" \o Fence, Fence \o "\n# open", Fence \o "\n" \o Fence, "  " \o Fence \o " py \n  x\n\n " \o Fence \o " ",
     Fence \o "\n# h\n- a\n| t |\n" \o MarkerLines(Status)[1] \o "\n"
        \o Fence \o "x\n" \o Fence \o "\nafter", "> quote", ">", "- a", "* b\n  - c",
     "1. x\n2. y", "5. x\n9. y", "3. a\n   7. b\n   7. c\n4. d", "- a\n  - b\n    - c\n- d", "| a | b |", "| A | B |\n| --- | --- |\n| 1 | 2 |", "|x\n|y", "| a | b |\n|:-:|\n| 1 |\n| 2 | 3 | 4 |", "| a | b | c |\n| -x- |", "| **H** | ****x**** |\n| --- | --- |\n| **c** | d |", "| **a** and **b** |\n| --- |\n| 1 |",
     "  - indented", "x [l](h) *e* **b** ~~s~~ " \o BT \o "c" \o BT \o " **u* [z](",
     TrimSuffix(writePreservedMarker(Status), "\n"),
     "  " \o TrimSuffix(writePreservedMarker(Placeholder), "\n")}
    \cup BadMarkers

\* what stands before and after a piece in a file: a line of text, an empty line
Around == {"text", ""}

\* the markdown bodies a user may push
Files ==
    {Join(pre \o <<s>> \o post, "\n") :
        pre \in SeqsUpTo(Around, MaxSiblings),
        post \in SeqsUpTo(Around, MaxSiblings),
        s \in Snippets}

\* ------------------------------------------------------------------------
\* The commands: get renders the remote document into the file, push parses
\* the file back.  The loop of markdownToADF takes two steps per iteration:
\* the tests that choose the branch, then the branch.
\* ------------------------------------------------------------------------

VARIABLES
    remote,     \* the document the remote service holds, NoDoc when the file is hand-written
    md,         \* the markdown body of the file
    lines,      \* markdownToADF: strings.Split(md, "\n")
    i,          \* markdownToADF: the index of the current line (1-based)
    content,    \* markdownToADF: doc.Content
    pc,         \* "remote", "file", "loop" (at the head of the loop), the name of
                \* the branch the iteration is in, "parsed" (doc returned)
    fileText,   \* splitFrontmatter: the content of the file it is given
    split,      \* splitFrontmatter: what it returned, NotSplit before the call
    cmd,        \* the command that runs: "push", "apply", "confluence push"
    dryRun,     \* its --dry-run flag
    file,       \* what Unmarshal or UnmarshalConfluencePage returned for its file
    server,     \* the issue or the page the remote service holds
    current,    \* the issue or the page the command has fetched
    adf,        \* the document the body of the file was converted to
    calls,      \* the requests the command has sent, in order
    out,        \* what the command returned and printed last
    cpc         \* the step the command is at, "done" once it has returned

vars == <<remote, md, lines, i, content, pc, fileText, split,
          cmd, dryRun, file, server, current, adf, calls, out, cpc>>

\* the parser of the body and its variables at rest
bodyVars == <<remote, md, lines, i, content, pc>>

bodyAtRest ==
    /\ remote = NoDoc
    /\ md = ""
    /\ lines = <<>>
    /\ i = 1
    /\ content = <<>>
    /\ pc = "rest"

\* the variables of the file-level steps, and their values while get and
\* push of a body run
fileVars == <<fileText, split, cmd, dryRun, file, server, current, adf, calls, out, cpc>>

cmdVars == <<cmd, dryRun, file, server, current, adf, calls, out, cpc>>

\* the command has not returned
Running == [err |-> "", msg |-> ""]

Nothing == [none |-> TRUE]

cmdAtRest ==
    /\ cmd = ""
    /\ dryRun = FALSE
    /\ file = Nothing
    /\ server = Nothing
    /\ current = Nothing
    /\ adf = NoDoc
    /\ calls = <<>>
    /\ out = Running
    /\ cpc = "rest"

NotSplit == [called |-> FALSE, fm |-> "", body |-> "", err |-> ""]

fileAtRest ==
    /\ fileText = ""
    /\ split = NotSplit
    /\ cmdAtRest

Init ==
    /\ lines = <<>>
    /\ i = 1
    /\ content = <<>>
    /\ \/ remote \in Docs /\ md = "" /\ pc = "remote"
       \/ remote = NoDoc /\ md \in Files /\ pc = "file"
    /\ fileAtRest

\* get: the body of the file is renderADF of the remote document
Get ==
    /\ pc = "remote"
    /\ md' = renderADF(remote)
    /\ pc' = "file"
    /\ UNCHANGED <<remote, lines, i, content>>
    /\ UNCHANGED fileVars

\* push: markdownToADF up to its loop
Push ==
    /\ pc = "file"
    /\ lines' = Split(md)
    /\ i' = 1
    /\ content' = <<>>
    /\ pc' = "loop"
    /\ UNCHANGED <<remote, md>>
    /\ UNCHANGED fileVars

\* the head of the loop and the tests on lines[i] that choose the branch
Dispatch ==
    /\ pc = "loop"
    /\ i <= Len(lines)
    /\ pc' = kindAt(lines, i)
    /\ UNCHANGED <<remote, md, lines, i, content>>
    /\ UNCHANGED fileVars

\* the branch kind up to its continue; a branch that never ends takes no step
Branch(kind, step) ==
    /\ pc = kind
    /\ ~step.hang
    /\ content' = content \o step.nodes
    /\ i' = step.i
    /\ pc' = "loop"
    /\ UNCHANGED <<remote, md, lines>>
    /\ UNCHANGED fileVars

SkipBlank == Branch("blank", blankAt(lines, i))

RestoreMarker == Branch("marker", markerAt(lines, i))

Rule == Branch("rule", ruleAt(lines, i))

HeadingLine == Branch("heading", headingAt(lines, i))

CodeFence == Branch("codeBlock", codeBlockAt(lines, i))

Blockquote == Branch("blockquote", blockquoteAt(lines, i))

BulletList == Branch("bulletList", listAt(lines, i, FALSE))

OrderedList == Branch("orderedList", listAt(lines, i, TRUE))

Table == Branch("table", tableAt(lines, i))

Paragraph == Branch("paragraph", paragraphAt(lines, i))

\* the loop ends and markdownToADF returns doc
Return ==
    /\ pc = "loop"
    /\ i > Len(lines)
    /\ pc' = "parsed"
    /\ UNCHANGED <<remote, md, lines, i, content>>
    /\ UNCHANGED fileVars

Next ==
    \/ Get
    \/ Push
    \/ Dispatch
    \/ SkipBlank
    \/ RestoreMarker
    \/ Rule
    \/ HeadingLine
    \/ CodeFence
    \/ Blockquote
    \/ BulletList
    \/ OrderedList
    \/ Table
    \/ Paragraph
    \/ Return

Spec == Init /\ [][Next]_vars

\* ------------------------------------------------------------------------
\* splitFrontmatter on the content of a file
\* ------------------------------------------------------------------------

\* how many lines a file given to splitFrontmatter may have
MaxFileLines == 4

\* the lines of such a file: delimiters, lines that only start like one,
\* a field, text, an empty line
FileLineSet == {"---", "---x", "----", "key: K", "text", ""}

FrontFiles == {Join(ls, "\n") : ls \in SeqsUpTo(FileLineSet, MaxFileLines)}

FrontInit ==
    /\ bodyAtRest
    /\ fileText \in FrontFiles
    /\ split = NotSplit
    /\ cmdAtRest

SplitFrontmatter ==
    /\ ~split.called
    /\ split' = splitFrontmatter(fileText)
    /\ UNCHANGED fileText
    /\ UNCHANGED bodyVars
    /\ UNCHANGED cmdVars

FrontNext == SplitFrontmatter

FrontSpec == FrontInit /\ [][FrontNext]_vars

\* ------------------------------------------------------------------------
\* The commands push, apply and confluence push.  Each runs from the result
\* of Unmarshal on its file to its return; a request to the remote service
\* succeeds or fails, and a request that succeeds changes what it holds.
\* ------------------------------------------------------------------------

\* markdown.Ticket, as Unmarshal returns it
Ticket(title, labels, status, updated, body) ==
    [err |-> "", Key |-> "K-1", Title |-> title, Labels |-> labels, Status |-> status,
     Updated |-> updated, Body |-> body]

\* markdown.ConfluenceDoc, as UnmarshalConfluencePage returns it
ConfluenceDoc(version, body) == [err |-> "", PageID |-> "9", Version |-> version, Body |-> body]

\* the error of Unmarshal for a file without frontmatter or without a key
BadFile == [err |-> "frontmatter missing required 'key' field"]

\* jira.Issue: its fields
Issue(summary, labels, status, updated, description) ==
    [Summary |-> summary, Labels |-> labels, Status |-> status, Updated |-> updated,
     Description |-> description]

\* jira.ConfluencePage
ConfluencePage(title, number, body) == [Title |-> title, Version |-> number, Body |-> body]

\* jira.TransitionInfo
TransitionInfo(id, name, to) == [ID |-> id, Name |-> name, To |-> to]

\* jira.UpdateFields
UpdateFields(summary, labels, description) ==
    [Summary |-> summary, Labels |-> labels, Description |-> description]

\* what a command returns (err, "" for nil) and the last line it prints
Done(err, msg) == [err |-> err, msg |-> msg]

ToLower(s) ==
    Concat([k \in 1..Len(s) |->
        IF Ord(At(s, k)) >= 65 /\ Ord(At(s, k)) <= 90 THEN Chr(Ord(At(s, k)) + 32) ELSE At(s, k)])

\* strings.EqualFold
EqualFold(s, t) == ToLower(s) = ToLower(t)

labelsEqual(a, b) ==
    /\ Len(a) = Len(b)
    /\ \A k \in 1..Len(b) : \E j \in 1..Len(a) : a[j] = b[k]

\* the ticket names a status other than the one of the issue
statusDiffers(issue, ticket) == ticket.Status # "" /\ ~EqualFold(ticket.Status, issue.Status)

computeChanges(issue, ticket, payload) ==
    (IF payload.Summary # issue.Summary THEN <<"title">> ELSE <<>>)
        \o (IF ~labelsEqual(payload.Labels, issue.Labels) THEN <<"labels">> ELSE <<>>)
        \o (IF payload.Description # NoDoc THEN <<"description: (updated)">> ELSE <<>>)
        \o (IF statusDiffers(issue, ticket) THEN <<"status">> ELSE <<>>)

hasFieldChanges(issue, payload) ==
    \/ payload.Summary # issue.Summary
    \/ ~labelsEqual(payload.Labels, issue.Labels)
    \/ payload.Description # NoDoc

\* the issue after the service has taken PUT /issue with these fields: a
\* field left out of the request (omitempty) keeps its value
updatedIssue(issue, payload) ==
    [issue EXCEPT !.Summary = IF payload.Summary = "" THEN @ ELSE payload.Summary,
                  !.Labels = IF payload.Labels = <<>> THEN @ ELSE payload.Labels,
                  !.Description = IF payload.Description = NoDoc THEN @ ELSE payload.Description,
                  !.Updated = "t9"]

\* the index of the first transition to, or named, targetStatus; 0 without one
transitionTo(transitions, targetStatus) ==
    FirstIdx(1, Len(transitions),
             LAMBDA k : \/ EqualFold(transitions[k].To, targetStatus)
                        \/ EqualFold(transitions[k].Name, targetStatus))
        % (Len(transitions) + 1)

\* the bodies of the files the commands are run on: a paragraph, and a line
\* on which markdownToADF does not advance
Bodies == {"text", "#######"}

\* the tickets and pages Unmarshal may return
Tickets ==
    {Ticket(title, labels, status, updated, body) :
        title \in {"T", "U"},
        labels \in {<<>>, <<"a">>, <<"a", "b">>},
        status \in {"", "Open", "done", "Close"},
        updated \in {"", "t1", "t2"},
        body \in Bodies}

ConfluenceDocs == {ConfluenceDoc(version, body) : version \in {1, 2}, body \in Bodies}

\* the issues and pages the remote service may hold
Issues ==
    {Issue("T", labels, status, updated, description) :
        labels \in {<<>>, <<"b", "a">>},
        status \in {"Open", "Done"},
        updated \in {"", "t1"},
        description \in {markdownToADF("text").doc, markdownToADF("old").doc}}

Pages == {ConfluencePage("P", number, markdownToADF("old").doc) : number \in {2, 3}}

\* the transitions the service may list for the issue
Workflows ==
    {<<>>,
     <<TransitionInfo("1", "Close", "Done")>>,
     <<TransitionInfo("2", "Reopen", "Open"), TransitionInfo("1", "Close", "Done")>>}

conflictError == "conflict: K-1 was modified in JIRA since your last pull."

\* the command returns
Returns(result) ==
    /\ out' = result
    /\ cpc' = "done"

\* the command goes on with the step next
GoesOn(next) ==
    /\ cpc' = next
    /\ UNCHANGED out

\* Unmarshal of the file has failed, or the command goes on
Unmarshalled(next) ==
    IF file.err # "" THEN Returns(Done("parsing markdown: " \o file.err, "")) ELSE GoesOn(next)

\* markdownToADF of the body has returned doc; it never returns when it hangs
Converted(r) ==
    /\ ~r.hang
    /\ adf' = r.doc

\* push: the file is read and parsed
PushUnmarshal ==
    /\ cmd = "push"
    /\ cpc = "start"
    /\ Unmarshalled("convert")
    /\ UNCHANGED <<cmd, dryRun, file, server, current, adf, calls>>
    /\ UNCHANGED <<bodyVars, fileText, split>>

PushBodyToADF ==
    /\ cmd = "push"
    /\ cpc = "convert"
    /\ Converted(BodyToADF(file.Body))
    /\ GoesOn("conflict")
    /\ UNCHANGED <<cmd, dryRun, file, server, current, calls>>
    /\ UNCHANGED <<bodyVars, fileText, split>>

\* push after its conflict check: the preview of a dry run, or the update
PushPreview ==
    IF dryRun THEN Returns(Done("", "Dry run: would push body to K-1")) ELSE GoesOn("update")

\* push: the conflict check, with GetIssue when the ticket has a time stamp
PushConflictCheck ==
    /\ cmd = "push"
    /\ cpc = "conflict"
    /\ \/ /\ file.Updated = ""
          /\ PushPreview
          /\ UNCHANGED <<calls, current>>
       \/ /\ file.Updated # ""
          /\ calls' = Append(calls, "GetIssue")
          /\ \/ /\ Returns(Done("checking for conflicts on K-1: JIRA API returned 500", ""))
                /\ UNCHANGED current
             \/ /\ current' = server
                /\ IF server.Updated # "" /\ file.Updated # server.Updated
                   THEN Returns(Done(conflictError, ""))
                   ELSE PushPreview
    /\ UNCHANGED <<cmd, dryRun, file, server, adf>>
    /\ UNCHANGED <<bodyVars, fileText, split>>

\* push: UpdateIssue with the description only
PushUpdateIssue ==
    /\ cmd = "push"
    /\ cpc = "update"
    /\ calls' = Append(calls, "UpdateIssue")
    /\ \/ /\ server' = updatedIssue(server, UpdateFields("", <<>>, adf))
          /\ Returns(Done("", "Pushed body to K-1"))
       \/ /\ Returns(Done("pushing body to K-1: JIRA API returned 400", ""))
          /\ UNCHANGED server
    /\ UNCHANGED <<cmd, dryRun, file, current, adf>>
    /\ UNCHANGED <<bodyVars, fileText, split>>

\* apply: the file is read and parsed
ApplyUnmarshal ==
    /\ cmd = "apply"
    /\ cpc = "start"
    /\ Unmarshalled("fetch")
    /\ UNCHANGED <<cmd, dryRun, file, server, current, adf, calls>>
    /\ UNCHANGED <<bodyVars, fileText, split>>

\* apply: GetIssue and the conflict check
ApplyGetIssue ==
    /\ cmd = "apply"
    /\ cpc = "fetch"
    /\ calls' = Append(calls, "GetIssue")
    /\ \/ /\ Returns(Done("fetching current state of K-1: JIRA API returned 500", ""))
          /\ UNCHANGED current
       \/ /\ current' = server
          /\ IF file.Updated # "" /\ server.Updated # "" /\ file.Updated # server.Updated
             THEN Returns(Done(conflictError, ""))
             ELSE GoesOn("payload")
    /\ UNCHANGED <<cmd, dryRun, file, server, adf>>
    /\ UNCHANGED <<bodyVars, fileText, split>>

\* apply with the changes it has computed: nothing to do, the preview of a
\* dry run, or the update
ApplyShowDiff(changes) ==
    IF Len(changes) = 0 THEN Returns(Done("", "No changes detected."))
    ELSE IF dryRun THEN Returns(Done("", "(dry run - no changes applied)"))
    ELSE GoesOn("update")

\* apply: ToUpdatePayload, computeChanges and the diff
ApplyToUpdatePayload ==
    /\ cmd = "apply"
    /\ cpc = "payload"
    /\ Converted(markdownToADF(file.Body))
    /\ ApplyShowDiff(computeChanges(current, file,
                                    UpdateFields(file.Title, file.Labels, adf')))
    /\ UNCHANGED <<cmd, dryRun, file, server, current, calls>>
    /\ UNCHANGED <<bodyVars, fileText, split>>

\* apply after its field update: the transition, or the end
ApplyAfterUpdate ==
    IF statusDiffers(current, file) THEN GoesOn("transition") ELSE Returns(Done("", "Done."))

\* apply: UpdateIssue when a field has changed
ApplyUpdateIssue ==
    /\ cmd = "apply"
    /\ cpc = "update"
    /\ IF hasFieldChanges(current, UpdateFields(file.Title, file.Labels, adf))
       THEN /\ calls' = Append(calls, "UpdateIssue")
            /\ \/ /\ server' = updatedIssue(server, UpdateFields(file.Title, file.Labels, adf))
                  /\ ApplyAfterUpdate
               \/ /\ Returns(Done("updating issue: JIRA API returned 400", ""))
                  /\ UNCHANGED server
       ELSE /\ ApplyAfterUpdate
            /\ UNCHANGED <<calls, server>>
    /\ UNCHANGED <<cmd, dryRun, file, current, adf>>
    /\ UNCHANGED <<bodyVars, fileText, split>>

\* transitionIssue with the transitions the service has listed
transitionIssue(transitions, found) ==
    IF found = 0
    THEN /\ calls' = Append(calls, "GetTransitions")
         /\ Returns(Done("transitioning status: no transition found to status", ""))
         /\ UNCHANGED server
    ELSE /\ calls' = calls \o <<"GetTransitions", "DoTransition">>
         /\ \/ /\ server' = [server EXCEPT !.Status = transitions[found].To]
               /\ Returns(Done("", "Done."))
            \/ /\ Returns(Done("transitioning status: JIRA API returned 400", ""))
               /\ UNCHANGED server

\* apply: the status transition
ApplyTransition ==
    /\ cmd = "apply"
    /\ cpc = "transition"
    /\ \/ /\ calls' = Append(calls, "GetTransitions")
          /\ Returns(Done("transitioning status: fetching transitions: JIRA API returned 500", ""))
          /\ UNCHANGED server
       \/ \E transitions \in Workflows :
            transitionIssue(transitions, transitionTo(transitions, file.Status))
    /\ UNCHANGED <<cmd, dryRun, file, current, adf>>
    /\ UNCHANGED <<bodyVars, fileText, split>>

\* confluence push: the file is read and parsed
ConfluenceUnmarshal ==
    /\ cmd = "confluence push"
    /\ cpc = "start"
    /\ Unmarshalled("convert")
    /\ UNCHANGED <<cmd, dryRun, file, server, current, adf, calls>>
    /\ UNCHANGED <<bodyVars, fileText, split>>

\* confluence push: BodyToADF, and the preview of a dry run
ConfluenceBodyToADF ==
    /\ cmd = "confluence push"
    /\ cpc = "convert"
    /\ Converted(BodyToADF(file.Body))
    /\ IF dryRun THEN Returns(Done("", "Dry run: would push body to Confluence page 9"))
       ELSE GoesOn("fetch")
    /\ UNCHANGED <<cmd, dryRun, file, server, current, calls>>
    /\ UNCHANGED <<bodyVars, fileText, split>>

ConfluenceGetPage ==
    /\ cmd = "confluence push"
    /\ cpc = "fetch"
    /\ calls' = Append(calls, "GetConfluencePage")
    /\ \/ /\ Returns(Done("fetching current page 9: Confluence API returned 500", ""))
          /\ UNCHANGED current
       \/ /\ current' = server
          /\ GoesOn("update")
    /\ UNCHANGED <<cmd, dryRun, file, server, adf>>
    /\ UNCHANGED <<bodyVars, fileText, split>>

ConfluenceUpdatePage ==
    /\ cmd = "confluence push"
    /\ cpc = "update"
    /\ calls' = Append(calls, "UpdateConfluencePage")
    /\ \/ /\ server' = ConfluencePage(current.Title, current.Version + 1, adf)
          /\ Returns(Done("", "Pushed body to Confluence page 9"))
       \/ /\ Returns(Done("pushing body to page 9: Confluence API returned 409", ""))
          /\ UNCHANGED server
    /\ UNCHANGED <<cmd, dryRun, file, current, adf>>
    /\ UNCHANGED <<bodyVars, fileText, split>>

CmdInit ==
    /\ bodyAtRest
    /\ fileText = ""
    /\ split = NotSplit
    /\ cmd \in {"push", "apply", "confluence push"}
    /\ dryRun \in BOOLEAN
    /\ file \in (IF cmd = "confluence push" THEN ConfluenceDocs ELSE Tickets) \cup {BadFile}
    /\ server \in (IF cmd = "confluence push" THEN Pages ELSE Issues)
    /\ current = Nothing
    /\ adf = NoDoc
    /\ calls = <<>>
    /\ out = Running
    /\ cpc = "start"

CmdNext ==
    \/ PushUnmarshal
    \/ PushBodyToADF
    \/ PushConflictCheck
    \/ PushUpdateIssue
    \/ ApplyUnmarshal
    \/ ApplyGetIssue
    \/ ApplyToUpdatePayload
    \/ ApplyUpdateIssue
    \/ ApplyTransition
    \/ ConfluenceUnmarshal
    \/ ConfluenceBodyToADF
    \/ ConfluenceGetPage
    \/ ConfluenceUpdatePage

CmdSpec == CmdInit /\ [][CmdNext]_vars

\* ------------------------------------------------------------------------
\* Properties of the two directions and of their composition
\* ------------------------------------------------------------------------

\* a node and all the nodes below it
RECURSIVE NodesOf(_)
NodesOf(node) ==
    {node} \cup UNION {NodesOf(node.Content[k]) : k \in 1..Len(node.Content)}

\* the tags and marks a tree of supported tags is built from; the rows and
\* cells of a table belong to the table
SupportedTags ==
    {"doc", "paragraph", "heading", "bulletList", "orderedList", "listItem", "codeBlock",
     "blockquote", "rule", "table", "tableRow", "tableHeader", "tableCell", "text"}

SupportedMarks == {"strong", "em", "code", "strike", "link"}

OnlySupported(tree) ==
    \A n \in NodesOf(tree) :
        /\ n.Type \in SupportedTags
        /\ \A k \in 1..Len(n.Marks) : n.Marks[k].Type \in SupportedMarks

\* every tag renderNode or renderTable has a case of its own for
RendererTags == SupportedTags \cup {"hardBreak", "mention", "inlineCard", "emoji"}

\* one element of the shape of a tree
ShapeOf(type, c, marks, level, language, body) ==
    [type |-> type, c |-> c, marks |-> marks, level |-> level, language |-> language,
     body |-> body]

\* The shape of a tree, in which whitespace-only differences do not show: the
\* tags in document order, the level of a heading as a number, the language
\* of a code block, and every character of text that is not white space with
\* the set of its marks.  The shape of a text node is the sequence of its
\* characters, so how a run of text is cut into text nodes does not show.
RECURSIVE Shape(_)
RECURSIVE ShapesFrom(_, _)
ShapesFrom(nodes, k) ==
    IF k > Len(nodes) THEN <<>> ELSE Shape(nodes[k]) \o ShapesFrom(nodes, k + 1)

Shape(node) ==
    IF node.Type = "text"
    THEN [k \in 1..Len(RemoveAll(node.Text, SpaceChars)) |->
            ShapeOf("char", At(RemoveAll(node.Text, SpaceChars), k),
                    {<<node.Marks[j].Type, AttrString(node.Marks[j].Attrs, "href")>> :
                        j \in 1..Len(node.Marks)},
                    0, "", <<>>)]
    ELSE <<ShapeOf(node.Type, "", {},
                   IF MapHas(node.Attrs, "level") THEN MapGet(node.Attrs, "level").n ELSE 0,
                   AttrString(node.Attrs, "language"),
                   ShapesFrom(node.Content, 1))>>

\* the k-th child of tree is a node of a preserved tag that can be serialized
PreservedAt(tree, k) ==
    tree.Content[k].Type \in PreservedTypes /\ ~jsonMarshal(tree.Content[k]).err

\* the branches of the loop that take lines as they are
BranchKinds ==
    {"marker", "heading", "blockquote", "bulletList", "orderedList", "table", "paragraph"}

\* C1: for every tree built only from the supported tags and marks, the tree
\* Parse returns for Render(tree) has the shape of tree: the same tags in the
\* same order, the same heading levels and languages, the same text with the
\* same marks, whitespace aside.
C1_RoundTripEquivalence ==
    (pc = "parsed" /\ remote # NoDoc /\ OnlySupported(remote))
        => Shape(docNode(content)) = Shape(remote)

\* C2: for every node n that can be serialized, parsePreservedMarker on the
\* lines writePreservedMarker wrote for n returns a node whose serialized form
\* is that of n, and the index after exactly three lines.  The nodes are the
\* documents of one block and all the nodes below them: every tag, mark and
\* attribute value of the remote documents occurs in one of them.
C2_MarkerFidelity ==
    (pc = "file" /\ remote # NoDoc /\ Len(remote.Content) = 1)
        => \A n \in NodesOf(remote) :
                ~jsonMarshal(n).err
                    => With(parsePreservedMarker(Split(writePreservedMarker(n)), 1),
                            LAMBDA r : /\ r.ok
                                       /\ marshalNode(r.node) = marshalNode(n)
                                       /\ r.i = 4)

\* C2, its case: push has restored a task item from the marker get wrote for
\* it; the node differs from the remote one in the Go type of a number only,
\* and its serialized form is the same.
C2_MarkerRestored ==
    /\ pc = "parsed"
    /\ remote = Block("doc", <<TaskItem>>)
    /\ Len(content) = 1
    /\ content[1] # TaskItem
    /\ marshalNode(content[1]) = marshalNode(TaskItem)

\* C3: every node whose tag the renderer has no case of its own for is
\* rendered as its preservation marker, whether or not the tag has a
\* description, and never as its children.
C3_UnknownTagsDelegated ==
    (pc = "file" /\ remote # NoDoc)
        => \A n \in NodesOf(remote) :
                n.Type \notin RendererTags => renderNode(n, "") = writePreservedMarker(n)

\* C4: for every node of a preserved tag that is a direct child of the
\* document, whatever stands before and after it, Render writes three marker
\* lines, Parse of the rendered text returns, and the document it returns has
\* the node, in its serialized form, at the same position.
C4_TopLevelPreserved ==
    (remote # NoDoc /\ \E k \in 1..Len(remote.Content) : PreservedAt(remote, k))
        => /\ pc = "file"
                => \A k \in 1..Len(remote.Content) :
                        PreservedAt(remote, k)
                            => Len(Split(renderNode(remote.Content[k], ""))) = 4
           /\ (pc = "loop" /\ i <= Len(lines)) => ~spins(lines, i)
           /\ pc = "parsed"
                => \A k \in 1..Len(remote.Content) :
                        PreservedAt(remote, k)
                            => /\ k <= Len(content)
                               /\ marshalNode(content[k]) = marshalNode(remote.Content[k])

\* C5: a node of a preserved tag that stands below a block of the document
\* (in a paragraph, a heading, a list item, a table cell, a blockquote) is
\* found, in its serialized form, in the tree Parse returns for Render(tree).
C5_NestedPreservedKept ==
    (pc = "parsed" /\ remote # NoDoc)
        => \A k \in 1..Len(remote.Content) :
                \A n \in NodesOf(remote.Content[k]) \ {remote.Content[k]} :
                    (/\ remote.Content[k].Type \in SupportedTags
                     /\ n.Type \in PreservedTypes
                     /\ ~jsonMarshal(n).err)
                        => \E m \in NodesOf(docNode(content)) :
                                marshalNode(m) = marshalNode(n)

\* C6: every iteration of the loop of markdownToADF ends and leaves the index
\* at a later line than it met it.
C6_EveryIterationAdvances ==
    (pc = "loop" /\ i <= Len(lines))
        => (~stepAt(lines, i).hang /\ stepAt(lines, i).i > i)

\* C7: at a marker-open line whose block does not decode, the iteration takes
\* the line as ordinary text: it appends a node for it and goes on with the
\* lines after it.
C7_MalformedMarkerIsText ==
    (pc = "loop" /\ i <= Len(lines) /\ markerOpen(lines[i])
        /\ ~parsePreservedMarker(lines, i).ok)
        => With(stepAt(lines, i),
                LAMBDA step : ~step.hang /\ step.i > i /\ Len(step.nodes) > 0)

\* C8: at a pipe-prefixed line that parseMarkdownTable returns no table for,
\* the iteration appends one paragraph and goes on with the lines after it.
C8_LonePipeLineIsParagraph ==
    (pc = "loop" /\ i <= Len(lines) /\ pipeLine(lines[i])
        /\ ~parseMarkdownTable(lines, i).ok)
        => With(stepAt(lines, i),
                LAMBDA step : /\ ~step.hang
                              /\ step.i > i
                              /\ Len(step.nodes) = 1
                              /\ step.nodes[1].Type = "paragraph")

\* C9: the tree Parse returns for Render(tree), handed to Render as it is,
\* renders to the string Render(tree).
C9_RenderIdempotent ==
    (pc = "parsed" /\ remote # NoDoc) => renderADF(docNode(content)) = md

\* C10: a line that is exactly ***, --- or ___ is never among the lines a
\* branch other than the rule branch and the code fence consumes: it is no
\* list item and no paragraph text.
C10_RuleLineNeverText ==
    pc \in BranchKinds
        => \A j \in i..(stepOf(lines, i, pc).i - 1) : ~ruleLine(lines[j])

\* a line the dispatcher starts a block on: a non-blank line at which the
\* loop takes a branch other than the paragraph
startsBlock(fileLines, j) == kindAt(fileLines, j) \notin {"blank", "paragraph"}

\* C11: the paragraph branch takes the lines from the cursor up to, and not
\* including, the first line that is blank or that the dispatcher would start
\* a block on (marker, rule ---/***/___, heading, fence, blockquote, bullet
\* item, ordered item, pipe row): a line is absorbed exactly when it is
\* neither.
C11_ParagraphStopsAtBlocks ==
    pc = "paragraph"
        => /\ \A j \in i..(paragraphAt(lines, i).i - 1) :
                ~blankLine(lines[j]) /\ ~startsBlock(lines, j)
           /\ paragraphAt(lines, i).i <= Len(lines)
                => \/ blankLine(lines[paragraphAt(lines, i).i])
                   \/ startsBlock(lines, paragraphAt(lines, i).i)

\* the mark each pattern of parseInline stands for, in the order of the patterns
PatternMarks == <<"link", "strong", "strike", "code", "em">>

\* the smallest position of s at which one of the five patterns matches, 0
\* when none matches anywhere
leftmostStart(s) ==
    IF \A p \in 1..Len(s) : \A pi \in 1..5 : ~matchPattern(pi, s, p).ok THEN 0
    ELSE CHOOSE p \in 1..Len(s) :
            /\ \E pi \in 1..5 : matchPattern(pi, s, p).ok
            /\ \A q \in 1..(p - 1) : \A pi \in 1..5 : ~matchPattern(pi, s, q).ok

\* the first pattern in the order that matches at position p
firstPatternAt(s, p) ==
    CHOOSE pi \in 1..5 :
        /\ matchPattern(pi, s, p).ok
        /\ \A pj \in 1..(pi - 1) : ~matchPattern(pj, s, p).ok

\* the text node the rule gives the match m of pattern pi
markedNode(pi, m) ==
    TextNode(m.m1, <<ADFMark(PatternMarks[pi],
                             IF pi = 1 THEN Attr1("href", VString(m.m2)) ELSE <<>>)>>)

\* The nodes the rule 'leftmost match, fixed-priority tie-break' gives a text:
\* the text before the leftmost match as one unmarked node, the match as one
\* marked node, and the nodes of the text right after the match.
RECURSIVE leftmostFirst(_)
leftmostFirstAt(s, p, pi) ==
    (IF p > 1 THEN <<TextNode(SubSeq(s, 1, p - 1), <<>>)>> ELSE <<>>)
        \o <<markedNode(pi, matchPattern(pi, s, p))>>
        \o leftmostFirst(From(s, matchPattern(pi, s, p).to))

leftmostFirst(s) ==
    IF s = "" THEN <<>>
    ELSE IF leftmostStart(s) = 0 THEN <<TextNode(s, <<>>)>>
    ELSE leftmostFirstAt(s, leftmostStart(s), firstPatternAt(s, leftmostStart(s)))

\* C12: for every line of the file that is not empty, parseInline returns the
\* nodes of the rule 'leftmost match, fixed-priority tie-break'.
C12_LeftmostMatchFirst ==
    pc = "loop" /\ i = 1
        => \A k \in 1..Len(lines) :
                lines[k] # "" => parseInline(lines[k]) = leftmostFirst(lines[k])

\* C12, its case: the paragraph "*x* y 'z'" is parsed; the italic pattern,
\* last in the order, matches leftmost and is taken before the code pattern.
C12_LeftmostTaken ==
    /\ pc = "parsed"
    /\ md = "*x* y " \o BT \o "z" \o BT \o "\n\n"
    /\ Len(content) = 1
    /\ content[1].Content
        = <<TextNode("x", <<Em>>), TextNode(" y ", <<>>),
            TextNode("z", <<ADFMark("code", <<>>)>>)>>

\* the heading level of the claim: the level attribute when it is a number
\* of any Go type, 2 otherwise
numericLevel(node) ==
    IF MapHas(node.Attrs, "level") /\ MapGet(node.Attrs, "level").t \in {"float64", "int"}
    THEN MapGet(node.Attrs, "level").n
    ELSE 2

\* node, if a heading, is rendered as numericLevel(node) hashes, a space, its
\* inline children and a blank line
HeadingRendered(node) ==
    node.Type = "heading"
        => renderNode(node, "")
                = Repeat("#", numericLevel(node)) \o " " \o renderInlineChildren(node) \o "\n\n"

\* C13: every heading is rendered with as many hashes as its level attribute
\* says, whether the tree was decoded from the remote service or returned by
\* Parse.
C13_HeadingLevelRendered ==
    /\ (pc = "file" /\ remote # NoDoc) => \A n \in NodesOf(remote) : HeadingRendered(n)
    /\ pc = "parsed" => \A n \in NodesOf(docNode(content)) : HeadingRendered(n)

\* the marker of the k-th item of a list
itemMarker(list, k) == IF list.Type = "orderedList" THEN Itoa(k) \o ". " ELSE "- "

\* The text of a list as the claims describe it, for a list whose items are a
\* paragraph followed by sub-lists: the k-th item of an ordered list on a line
\* with the prefix "k. ", a bullet item with "- ", and the items of a sub-list
\* indented by as many spaces as the line of their parent has before its text.
RECURSIVE numberedList(_, _)
numberedItem(item, prefix) ==
    prefix \o renderInlineChildren(item.Content[1]) \o "\n"
        \o Concat([c \in 1..(Len(item.Content) - 1) |->
                    numberedList(item.Content[c + 1], Repeat(" ", Len(prefix)))])

numberedList(list, indent) ==
    Concat([k \in 1..Len(list.Content) |->
                numberedItem(list.Content[k], indent \o itemMarker(list, k))])

\* C14: every ordered list of the tree Parse returns is rendered with its
\* items numbered 1, 2, 3, ... at every nesting level, whatever digits the
\* markdown used.
C14_OrderedItemsRenumbered ==
    pc = "parsed"
        => \A k \in 1..Len(content) :
                content[k].Type = "orderedList"
                    => renderNode(content[k], "") = numberedList(content[k], "")

\* C14, its case: the list "5. x / 9. y" is parsed and rendered as "1. x / 2. y".
C14_RenumberedFromOne ==
    /\ pc = "parsed"
    /\ md = "5. x\n9. y"
    /\ renderADF(docNode(content)) = "1. x\n2. y\n"

IsList(node) == node.Type \in {"bulletList", "orderedList"}

\* an item that is one paragraph, followed by sub-lists if subs allows them
PlainItem(item, subs) ==
    /\ item.Type = "listItem"
    /\ Len(item.Content) \in {1} \cup subs
    /\ item.Content[1].Type = "paragraph"

\* a list of two levels: its items are a paragraph and at most one sub-list,
\* whose items are a paragraph only; at least one item has a sub-list
TwoLevelList(list) ==
    /\ IsList(list)
    /\ \A k \in 1..Len(list.Content) :
            /\ PlainItem(list.Content[k], {2})
            /\ Len(list.Content[k].Content) = 2
                => /\ IsList(list.Content[k].Content[2])
                   /\ \A j \in 1..Len(list.Content[k].Content[2].Content) :
                        PlainItem(list.Content[k].Content[2].Content[j], {})
    /\ \E k \in 1..Len(list.Content) : Len(list.Content[k].Content) = 2

indentOf(line) == Len(line) - Len(TrimLeftIn(line, {" "}))

\* a line of a bullet list whose levels are two spaces apart
SteppedLine(line) ==
    /\ indentOf(line) % 2 = 0
    /\ HasPrefix(From(line, indentOf(line) + 1), "- ")
    /\ Len(line) > indentOf(line) + 2

levelOf(line) == indentOf(line) \div 2

\* a file that is one bullet list, each level two spaces further in than its
\* parent's marker, no line more than one level below the line before it
SteppedList(fileLines) ==
    /\ fileLines # <<>>
    /\ \A k \in 1..Len(fileLines) : SteppedLine(fileLines[k])
    /\ levelOf(fileLines[1]) = 0
    /\ \A k \in 2..Len(fileLines) : levelOf(fileLines[k]) <= levelOf(fileLines[k - 1]) + 1

\* the items of level d of such a list, each with the items after it of the
\* levels below as its sub-list
RECURSIVE nestedItems(_, _)
nestedItems(fileLines, d) ==
    IF fileLines = <<>> THEN <<>>
    ELSE LET after == {k \in 2..Len(fileLines) : levelOf(fileLines[k]) = d}
             next == IF after = {} THEN Len(fileLines) + 1
                     ELSE CHOOSE k \in after : \A j \in after : k <= j
             below == nestedItems(SubSeq(fileLines, 2, next - 1), d + 1)
         IN  <<Item(From(fileLines[1], 2 * d + 3),
                    IF below = <<>> THEN <<>> ELSE <<Block("bulletList", below)>>)>>
             \o nestedItems(SubSeq(fileLines, next, Len(fileLines)), d)

\* C16: a list of any number of levels, each indented two spaces more than
\* its parent's marker, parses to a tree with as many nested lists, every
\* item below the item of the previous level that precedes it.
C16_EveryLevelNested ==
    (pc = "parsed" /\ SteppedList(lines))
        => content = <<Block("bulletList", nestedItems(lines, 0))>>

\* the index after the run of lines with a leading '|' that starts at index j
pipeRunEnd(fileLines, j) ==
    CHOOSE e \in j..(Len(fileLines) + 1) :
        /\ \A k \in j..(e - 1) : HasPrefix(TrimSpace(fileLines[k]), "|")
        /\ e <= Len(fileLines) => ~HasPrefix(TrimSpace(fileLines[e]), "|")

\* every cell of the line is empty once its ':' and '-' are removed
separatorLine(line) ==
    \A k \in 1..Len(splitTableRow(line)) : RemoveAll(splitTableRow(line)[k], {":", "-"}) = ""

\* the row of the cells of a line, every cell of the type cellType
rowOfLine(line, cellType) ==
    Block("tableRow",
          [k \in 1..Len(splitTableRow(line)) |->
              Block(cellType, <<Para(parseInline(splitTableRow(line)[k]))>>)])

\* C17: the table taken from a run of two or more pipe lines ends with the
\* run; when the second line is a separator line its rows are the first line
\* as header cells and the lines from the third on as plain cells, otherwise
\* every line as plain cells; each row has the cells of its own line.
C17_HeaderDetection ==
    (pc = "table" /\ pipeRunEnd(lines, i) - i >= 2)
        => /\ parseMarkdownTable(lines, i).ok
           /\ parseMarkdownTable(lines, i).i = pipeRunEnd(lines, i)
           /\ parseMarkdownTable(lines, i).node.Type = "table"
           /\ parseMarkdownTable(lines, i).node.Content =
                IF separatorLine(lines[i + 1])
                THEN <<rowOfLine(lines[i], "tableHeader")>>
                     \o [k \in 1..(pipeRunEnd(lines, i) - i - 2) |->
                            rowOfLine(lines[i + 1 + k], "tableCell")]
                ELSE [k \in 1..(pipeRunEnd(lines, i) - i) |->
                            rowOfLine(lines[i + k - 1], "tableCell")]

\* C17, its case: a header of two cells, a separator of one cell, and data
\* rows of one and of three cells are parsed to three rows of 2, 1 and 3 cells.
C17_RaggedTableParsed ==
    /\ pc = "parsed"
    /\ md = "| a | b |\n|:-:|\n| 1 |\n| 2 | 3 | 4 |"
    /\ Len(content) = 1
    /\ content[1].Type = "table"
    /\ <<Len(content[1].Content[1].Content), Len(content[1].Content[2].Content),
         Len(content[1].Content[3].Content)>> = <<2, 1, 3>>
    /\ Len(content[1].Content) = 3
    /\ content[1].Content[1].Content[1].Type = "tableHeader"
    /\ content[1].Content[2].Content[1].Type = "tableCell"

\* the tables of a list of blocks
TablesIn(nodes) == {nodes[k] : k \in {j \in 1..Len(nodes) : nodes[j].Type = "table"}}

\* the most cells a row of the table has
maxCellCount(table) == MaxOf({Len(table.Content[r].Content) : r \in 1..Len(table.Content)})

\* the lines Render emits for a table, without the empty line that ends it
emittedLines(table) == Split(TrimSuffix(renderNode(table, ""), "\n\n"))

\* the row of the table printed on the k-th emitted line, 0 for the separator
rowOnLine(k) == IF k = 1 THEN 1 ELSE IF k = 2 THEN 0 ELSE k - 1

\* the table is printed on one line per row and one for the separator, each
\* of as many cells as the longest row has; the line of a row holds the cells
\* of the row in their order, then empty cells
PaddedToWidest(table) ==
    /\ Len(emittedLines(table)) = Len(table.Content) + 1
    /\ \A k \in 1..Len(emittedLines(table)) :
        /\ HasPrefix(emittedLines(table)[k], "|")
        /\ Len(splitTableRow(emittedLines(table)[k])) = maxCellCount(table)
        /\ rowOnLine(k) > 0 /\ rowOnLine(k) <= Len(table.Content)
            => \A c \in 1..maxCellCount(table) :
                splitTableRow(emittedLines(table)[k])[c]
                    = IF c <= Len(table.Content[rowOnLine(k)].Content)
                      THEN cellText(table.Content[rowOnLine(k)].Content[c])
                      ELSE ""

\* C18: every line Render emits for a table has as many cells as the longest
\* row of the table, short rows filled up on the right with empty cells and
\* no cell of any row left out.
C18_RowsPaddedToWidest ==
    /\ (pc = "file" /\ remote # NoDoc) => \A t \in TablesIn(remote.Content) : PaddedToWidest(t)
    /\ pc = "parsed" => \A t \in TablesIn(content) : PaddedToWidest(t)

\* the texts of the cells of row r of the table, filled up to its longest row
paddedCells(table, r) ==
    [c \in 1..maxCellCount(table) |->
        IF c <= Len(table.Content[r].Content) THEN cellText(table.Content[r].Content[c]) ELSE ""]

\* the text of the table starts with its first row, then a separator line
FirstRowThenSeparator(table) ==
    HasPrefix(renderNode(table, ""),
              "| " \o Join(paddedCells(table, 1), " | ") \o " |\n"
                \o "| " \o Join([c \in 1..maxCellCount(table) |-> "---"], " | ") \o " |\n")

\* no cell of the row is a header cell
PlainRow(row) == \A c \in 1..Len(row.Content) : row.Content[c].Type = "tableCell"

\* every cell of the row is a header cell
HeaderRow(row) == \A c \in 1..Len(row.Content) : row.Content[c].Type = "tableHeader"

\* the first block of the document parsed from the text of the table
reparsed(table) == markdownToADF(renderNode(table, "")).doc.Content[1]

\* C19: the text of a table with rows starts with its first row and a
\* separator line, header cells or not; so a table parsed without a header
\* is parsed from its own text with its first row as header cells, a tree
\* other than the one that was rendered.
C19_HeaderlessTableGainsHeader ==
    /\ (pc = "file" /\ remote # NoDoc)
        => \A t \in TablesIn(remote.Content) : FirstRowThenSeparator(t)
    /\ pc = "parsed"
        => \A t \in TablesIn(content) :
            /\ FirstRowThenSeparator(t)
            /\ PlainRow(t.Content[1])
                => /\ reparsed(t).Type = "table"
                   /\ HeaderRow(reparsed(t).Content[1])
                   /\ Len(reparsed(t).Content[1].Content) = maxCellCount(t)
                   /\ reparsed(t) # t

\* C19, its case: the two pipe lines |x and |y, no separator between them,
\* are parsed to two plain rows, and the text of that table to a header x.
C19_HeaderlessTableReparsed ==
    /\ pc = "parsed"
    /\ md = "|x\n|y"
    /\ Len(content) = 1
    /\ content[1].Type = "table"
    /\ PlainRow(content[1].Content[1])
    /\ renderNode(content[1], "") = "| x |\n| --- |\n| y |\n\n"
    /\ reparsed(content[1]).Content[1].Content[1].Type = "tableHeader"

\* the text of a cell as renderTable has it before it strips bold markers
rawCellText(cell) ==
    TrimSpace(Concat([k \in 1..Len(cell.Content) |-> renderInlineChildren(cell.Content[k])]))

\* the text is one pair of bold markers around the rest of it: it starts and
\* ends with the marker, and the span the first marker opens is not closed
\* before the end of the text
SurroundedByBold(text) ==
    /\ HasPrefix(text, "**")
    /\ HasSuffix(text, "**")
    /\ Len(text) > 4
    /\ ~(Index(From(text, 3), "**") > 1 /\ Index(From(text, 3), "**") + 2 < Len(text) - 1)

\* the text renderTable is to print for a cell
printedText(cell) ==
    IF cell.Type = "tableHeader" /\ SurroundedByBold(rawCellText(cell))
    THEN SubSeq(rawCellText(cell), 3, Len(rawCellText(cell)) - 2)
    ELSE rawCellText(cell)

\* C20: the text printed for a header cell surrounded by one pair of bold
\* markers is the text inside that pair; the text of a data cell, and of a
\* header cell that begins with one bold span and ends with another, is
\* printed as it is.
C20_OuterBoldStrippedOnce ==
    pc = "parsed"
        => \A t \in TablesIn(content) :
            \A r \in 1..Len(t.Content) : \A c \in 1..Len(t.Content[r].Content) :
                cellText(t.Content[r].Content[c]) = printedText(t.Content[r].Content[c])

\* ------------------------------------------------------------------------
\* Properties of splitFrontmatter
\* ------------------------------------------------------------------------

\* the file starts with a line that is exactly the delimiter
OpensWithDelimiter(text) == Split(text)[1] = "---"

\* the indexes of the lines after the first that are exactly the delimiter
ClosingLines(text) == {k \in 2..Len(Split(text)) : Split(text)[k] = "---"}

\* C21: splitFrontmatter returns an error exactly when the first line of the
\* content is not the line --- or no later line is the line ---; lines such
\* as ---x and ---- are not delimiters.
C21_ErrorIffNoDelimiters ==
    split.called
        => (split.err # "" <=> ~(OpensWithDelimiter(fileText) /\ ClosingLines(fileText) # {}))

\* the first line after the first that is exactly the delimiter
closingLine(text) == CHOOSE k \in ClosingLines(text) : \A j \in ClosingLines(text) : k <= j

\* the lines from index from to index to of the text, as text
linesBetween(text, from, to) == Join(SubSeq(Split(text), from, to), "\n")

\* C22: when splitFrontmatter succeeds on a file with an opening and a
\* closing delimiter line, the metadata block is the text of the lines
\* between them and the body is the text of the lines after the closing
\* line without its leading line breaks.
C22_BlockAndBodyVerbatim ==
    (split.called /\ split.err = "" /\ OpensWithDelimiter(fileText) /\ ClosingLines(fileText) # {})
        => /\ split.fm = linesBetween(fileText, 2, closingLine(fileText) - 1)
           /\ split.body = TrimLeftIn(linesBetween(fileText, closingLine(fileText) + 1,
                                                   Len(Split(fileText))),
                                      {"\n", "\r"})

\* ------------------------------------------------------------------------
\* Properties of the marker, the tree and the inline text
\* ------------------------------------------------------------------------

\* the description of a tag: its entry in the table, the tag without one
descriptionOf(type) ==
    IF type \in DOMAIN preservedDescriptions THEN preservedDescriptions[type] ELSE type

\* the three lines of the marker of a node whose open line ends with tail
threeLines(node, tail) ==
    <<"<!-- PRESERVED: " \o descriptionOf(node.Type) \o " - Do not edit this block; " \o tail,
      "<!-- data:" \o EncodeToString(marshalNode(node)) \o " -->",
      "<!-- /PRESERVED -->">>

\* C23 as stated: the marker of a node is three lines, the open line ending
\* with "it is restored on push. -->", the data line with the base64 text of
\* the serialized node, and the close line.
C23_MarkerLinesAsStated ==
    (pc = "file" /\ remote # NoDoc /\ Len(remote.Content) = 1)
        => \A n \in NodesOf(remote) :
                n.Type \in PreservedTypes
                    => Split(writePreservedMarker(n))
                            = threeLines(n, "it is restored on push. -->") \o <<"">>

\* C23, amended: the marker of a node that serializes is three lines, the
\* open line ending with "it is restored on push to JIRA. -->"; the marker of
\* a node that does not serialize is the one line that says so.  A preserved
\* block that is the whole document is the whole file.
C23_MarkerLines ==
    (pc = "file" /\ remote # NoDoc /\ Len(remote.Content) = 1)
        => /\ \A n \in NodesOf(remote) :
                n.Type \in PreservedTypes
                    => Split(writePreservedMarker(n))
                        = (IF NodeMarshals(n)
                           THEN threeLines(n, "it is restored on push to JIRA. -->")
                           ELSE <<"<!-- PRESERVED: " \o descriptionOf(n.Type)
                                    \o " - Could not serialize for round-trip -->">>)
                          \o <<"">>
           /\ remote.Content[1].Type \in PreservedTypes
                => md = writePreservedMarker(remote.Content[1])

\* C23, its case: get has written the marker of a status node.
C23_StatusMarkerWritten ==
    /\ pc = "file"
    /\ remote = Block("doc", <<Status>>)
    /\ md = "<!-- PRESERVED: Status lozenge - Do not edit this block; it is restored on push to JIRA. -->\n"
            \o "<!-- data:eyJ0eXBlIjoic3RhdHVzIiwiYXR0cnMiOnsiY29sb3IiOiJibHVlIiwidGV4dCI6IkluIFByb2dyZXNzIn19 -->\n"
            \o "<!-- /PRESERVED -->\n"

\* ------------------------------------------------------------------------
\* Properties of the commands
\* ------------------------------------------------------------------------

\* the requests that change what the remote service holds
Mutating == {"UpdateIssue", "DoTransition", "UpdateConfluencePage"}

\* no request the command has sent changes what the service holds
NothingSent == \A k \in 1..Len(calls) : calls[k] \notin Mutating

\* the command is at the conversion of a body on which markdownToADF does
\* not return: it takes no further step
NeverReturns == cpc \in {"convert", "payload"} /\ markdownToADF(file.Body).hang

\* C24: with --dry-run, push, apply and confluence push send no UpdateIssue,
\* DoTransition or UpdateConfluencePage, and every execution returns.
C24_DryRunReturnsUnchanged == dryRun => NothingSent /\ ~NeverReturns

\* no node of the tree but its text nodes carries text or marks
WellShaped(tree) ==
    \A n \in NodesOf(tree) : n.Type # "text" => n.Text = "" /\ n.Marks = <<>>

\* C25: the tree Parse returns is rooted at one node tagged doc, and in
\* every block a branch other than the restoring of a marker adds to it only
\* the nodes tagged text carry text or marks.
C25_NodeShape ==
    /\ [](pc = "parsed"
            => /\ docNode(content).Type = "doc"
               /\ docNode(content).Text = ""
               /\ docNode(content).Marks = <<>>)
    /\ [][pc # "marker"
            => \A k \in (Len(content) + 1)..Len(content') : WellShaped(content'[k])]_vars

\* C25, its case: a fenced code block with a language has been parsed to a
\* codeBlock node that carries the code in a text node below it.
C25_CodeBlockShaped ==
    /\ pc = "parsed"
    /\ md = Fence \o "go\nx\n" \o Fence
    /\ content = <<CodeBlock("go", "x")>>
    /\ WellShaped(docNode(content))

\* the index of the first line after index j whose trimmed text is the fence,
\* the index after the last line when there is none
closingFence(fileLines, j) ==
    CHOOSE e \in (j + 1)..(Len(fileLines) + 1) :
        /\ \A k \in (j + 1)..(e - 1) : TrimSpace(fileLines[k]) # Fence
        /\ e <= Len(fileLines) => TrimSpace(fileLines[e]) = Fence

\* the token after the opening fence
fenceToken(line) == TrimSpace(From(TrimSpace(line), Len(Fence) + 1))

\* C26: a line whose trimmed text starts with the fence is taken by the code
\* branch; the lines after it up to the first line whose trimmed text is the
\* fence, or all the rest, are the text of one codeBlock, joined by line
\* breaks as they are; the token after the fence is the language when it is
\* not empty; the loop goes on after the closing fence, or ends.
C26_FenceScanning ==
    /\ (pc = "loop" /\ i <= Len(lines) /\ HasPrefix(TrimSpace(lines[i]), Fence))
            => kindAt(lines, i) = "codeBlock"
    /\ pc = "codeBlock"
            => /\ ~codeBlockAt(lines, i).hang
               /\ codeBlockAt(lines, i).i = Min(closingFence(lines, i) + 1, Len(lines) + 1)
               /\ codeBlockAt(lines, i).nodes =
                    <<ADFNode("codeBlock",
                              <<TextNode(Join(SubSeq(lines, i + 1, closingFence(lines, i) - 1), "\n"),
                                         <<>>)>>,
                              "",
                              IF fenceToken(lines[i]) = "" THEN <<>>
                              ELSE Attr1("language", VString(fenceToken(lines[i]))),
                              <<>>)>>

\* C26, its case: a heading, a list item, a table row, a marker line and a
\* fence with a token stand between two fences and are the text of the code
\* block; the line after the closing fence is a paragraph.
C26_BlockLinesKeptAsCode ==
    /\ pc = "parsed"
    /\ md = Fence \o "\n# h\n- a\n| t |\n" \o MarkerLines(Status)[1] \o "\n" \o Fence \o "x\n"
                \o Fence \o "\nafter"
    /\ content = <<CodeBlock("", "# h\n- a\n| t |\n" \o MarkerLines(Status)[1] \o "\n" \o Fence \o "x"),
                   Plain("after")>>

\* the title, labels, status and description of the file are those of the
\* issue apply has fetched
SameAsCurrent ==
    /\ file.Title = current.Summary
    /\ labelsEqual(file.Labels, current.Labels)
    /\ EqualFold(file.Status, current.Status)
    /\ markdownToADF(file.Body).doc = current.Description

\* C27: when apply has compared a file with an issue that has the same
\* title, labels, status and description, it reports "No changes detected."
\* and has sent neither UpdateIssue nor DoTransition.
C27_NoChangesNoRequests ==
    (cmd = "apply" /\ cpc = "done" /\ file.err = "" /\ current # Nothing
        /\ out.err # conflictError /\ SameAsCurrent)
        => /\ out = Done("", "No changes detected.")
           /\ NothingSent

\* the text of a list of text nodes with the marks of each put back around it
reassembled(nodes) ==
    Concat([k \in 1..Len(nodes) |-> applyMarks(nodes[k].Text, nodes[k].Marks)])

\* C28: the nodes parseInline returns for a non-empty text, each with its
\* marks put back by applyMarks, concatenated in order, are the text.
C28_InlineTextConserved ==
    (pc = "loop" /\ i = 1)
        => \A k \in 1..Len(lines) :
                lines[k] # "" => reassembled(parseInline(lines[k])) = lines[k]

\* C28, its case: a paragraph with a link, an italic, a bold, a struck and a
\* code span and with delimiters that match nothing has been parsed to more
\* than ten nodes, which put together are the line.
C28_MarkedLineConserved ==
    /\ pc = "parsed"
    /\ md = "x [l](h) *e* **b** ~~s~~ " \o BT \o "c" \o BT \o " **u* [z]("
    /\ Len(content) = 1
    /\ content[1].Type = "paragraph"
    /\ Len(content[1].Content) > 10
    /\ reassembled(content[1].Content) = md

\* the text nodes of a tree that carry no text
emptyTexts(tree) == {n \in NodesOf(tree) : n.Type = "text" /\ n.Text = ""}

\* C29: no node tagged text in the tree markdownToADF returns has an empty
\* text, whatever the markdown: not for a heading without a title, a list
\* item without content, an empty table cell or an empty code block.
C29_NoEmptyTextNodes ==
    pc = "parsed" => emptyTexts(docNode(content)) = {}

\* C30: when apply has returned an error, the issue the service holds is the
\* issue apply fetched: neither the field update nor the status transition
\* has been applied to it.
C30_ErrorLeavesIssueUntouched ==
    (cmd = "apply" /\ cpc = "done" /\ out.err # "" /\ current # Nothing)
        => server = current

====
